---- MODULE Spec2Model ----
(***************************************************************************)
(* Question-acquisition pipeline of 100Days-to-UTME: the text parser       *)
(* (QuestionParser), the QuizLauncher loaders with their session cache,    *)
(* and the archive/live fallback loaders.                                  *)
(*                                                                         *)
(* JavaScript strings are sequences of one-character strings, so that      *)
(* trim, split, startsWith, includes, replace and the regular expressions  *)
(* are computed rather than assumed.  A value that may be undefined or     *)
(* null is Nothing or Just(v).                                             *)
(***************************************************************************)
EXTENDS Integers, Sequences, FiniteSets, TLC

\* ------------------------------------------------------------------------
\* JavaScript values
\* ------------------------------------------------------------------------

Nothing == <<>>
Just(x) == <<x>>
IsJust(m) == Len(m) = 1
Val(m) == m[1]

SetMin(S) == CHOOSE x \in S : \A y \in S : x <= y
SetMax(S) == CHOOSE x \in S : \A y \in S : x >= y

\* Characters String.prototype.trim strips and the regular expression \s matches.
WhiteSpace == {" ", "\t", "\r", "\n"}
\* Characters the regular expression . does not match.
LineTerminators == {"\n", "\r"}
Digits == {"0", "1", "2", "3", "4", "5", "6", "7", "8", "9"}
OptionLetters == {"A", "B", "C", "D"}

DigitVal(c) ==
    CASE c = "0" -> 0 [] c = "1" -> 1 [] c = "2" -> 2 [] c = "3" -> 3
      [] c = "4" -> 4 [] c = "5" -> 5 [] c = "6" -> 6 [] c = "7" -> 7
      [] c = "8" -> 8 [] c = "9" -> 9

\* The string as it is, white space kept.
TrimNothing(s) == s

\* String.prototype.trim
Trim(s) ==
    LET keep == {i \in 1..Len(s) : s[i] \notin WhiteSpace}
    IN  IF keep = {} THEN <<>> ELSE SubSeq(s, SetMin(keep), SetMax(keep))

\* String.prototype.startsWith
StartsWith(s, p) == Len(s) >= Len(p) /\ SubSeq(s, 1, Len(p)) = p

\* Index of the first occurrence of p in s, 0 when there is none (indexOf + 1).
IndexOf(s, p) ==
    LET at == {i \in 1..(Len(s) - Len(p) + 1) : SubSeq(s, i, i + Len(p) - 1) = p}
    IN  IF at = {} THEN 0 ELSE SetMin(at)

\* The test that finds nothing.
IncludesNever(s, p) == FALSE

\* String.prototype.includes
Includes(s, p) == IndexOf(s, p) # 0

\* String.prototype.replace with a string pattern: the first occurrence only.
ReplaceFirst(s, p, r) ==
    LET k == IndexOf(s, p)
    IN  IF k = 0 THEN s
        ELSE SubSeq(s, 1, k - 1) \o r \o SubSeq(s, k + Len(p), Len(s))

\* String.prototype.split with a one-character separator.
RECURSIVE Split(_, _)
Split(s, sep) ==
    LET at == {i \in 1..Len(s) : s[i] = sep}
    IN  IF at = {} THEN <<s>>
        ELSE LET k == SetMin(at)
             IN  <<SubSeq(s, 1, k - 1)>> \o Split(SubSeq(s, k + 1, Len(s)), sep)

\* Value of a non-empty string of decimal digits.
RECURSIVE DigitsValue(_)
DigitsValue(ds) ==
    IF ds = <<>> THEN 0
    ELSE 10 * DigitsValue(SubSeq(ds, 1, Len(ds) - 1)) + DigitVal(ds[Len(ds)])

\* parseInt(s): leading white space, an optional sign, then the longest prefix
\* of digits; NaN (Nothing) when there is no digit.
ParseInt(s) ==
    LET nonWs  == {i \in 1..Len(s) : s[i] \notin WhiteSpace}
        t      == IF nonWs = {} THEN <<>> ELSE SubSeq(s, SetMin(nonWs), Len(s))
        signed == t # <<>> /\ t[1] \in {"+", "-"}
        u      == IF signed THEN Tail(t) ELSE t
        nonDig == {i \in 1..Len(u) : u[i] \notin Digits}
        n      == IF nonDig = {} THEN Len(u) ELSE SetMin(nonDig) - 1
        v      == DigitsValue(SubSeq(u, 1, n))
    IN  IF n = 0 THEN Nothing
        ELSE Just(IF signed /\ t[1] = "-" THEN 0 - v ELSE v)

\* The tail written  \.\s*(.+)$ : no white space needed after the dot.
MatchDotRestLoose(after) ==
    IF after = <<>> \/ after[1] # "." THEN Nothing
    ELSE LET a     == Tail(after)
             nonWs == {i \in 1..Len(a) : a[i] \notin WhiteSpace}
             w     == IF nonWs = {} THEN Len(a) ELSE SetMin(nonWs) - 1
             ks    == {k \in 0..w :
                          /\ k < Len(a)
                          /\ \A i \in (k + 1)..Len(a) : a[i] \notin LineTerminators}
         IN  IF ks = {} THEN Nothing
             ELSE Just(SubSeq(a, SetMax(ks) + 1, Len(a)))

\* The tail  \.\s+(.+)$  of both line patterns, applied to what follows the
\* captured head: a dot, white space taken greedily but given back while the
\* rest would be empty or hold a line terminator, then the rest.
MatchDotRest(after) ==
    IF after = <<>> \/ after[1] # "." THEN Nothing
    ELSE LET a     == Tail(after)
             nonWs == {i \in 1..Len(a) : a[i] \notin WhiteSpace}
             w     == IF nonWs = {} THEN Len(a) ELSE SetMin(nonWs) - 1
             ks    == {k \in 1..w :
                          /\ k < Len(a)
                          /\ \A i \in (k + 1)..Len(a) : a[i] \notin LineTerminators}
         IN  IF ks = {} THEN Nothing
             ELSE Just(SubSeq(a, SetMax(ks) + 1, Len(a)))

\* line.match(/^(\d+)\.\s+(.+)$/): Nothing, or Just(<<digits, rest>>).
QuestionMatch(line) ==
    LET nonDig == {i \in 1..Len(line) : line[i] \notin Digits}
        d      == IF nonDig = {} THEN Len(line) ELSE SetMin(nonDig) - 1
        rest   == MatchDotRest(SubSeq(line, d + 1, Len(line)))
    IN  IF d = 0 \/ rest = Nothing THEN Nothing
        ELSE Just(<<SubSeq(line, 1, d), Val(rest)>>)

\* line.match(/^([A-D])\.\s+(.+)$/): Nothing, or Just(<<letter, rest>>).
OptionMatch(line) ==
    IF line = <<>> \/ line[1] \notin OptionLetters THEN Nothing
    ELSE LET rest == MatchDotRest(Tail(line))
         IN  IF rest = Nothing THEN Nothing ELSE Just(<<line[1], Val(rest)>>)

\* ------------------------------------------------------------------------
\* QuestionParser.parse
\* ------------------------------------------------------------------------

HeaderPrefix == <<"J", "A", "M", "B", " ">>
BannerMarker ==
    <<"E", "X", "C", "E", "P", "T", "I", "O", "N", "A", "L", " ",
      "Q", "U", "E", "S", "T", "I", "O", "N", "S">>
AnswerTag == <<"A", "n", "s", "w", "e", "r", ":">>
ExplanationTag == <<"E", "x", "p", "l", "a", "n", "a", "t", "i", "o", "n", ":">>
ExceptionTag == <<"E", "x", "c", "e", "p", "t", "i", "o", "n", ":">>

NoOptions == [k \in {} |-> Nothing]

\* The object literal a numbered line starts.
NewQuestion(m, subject) ==
    [id          |-> Val(ParseInt(m[1])),
     subject     |-> subject,
     text        |-> Just(m[2]),
     options     |-> NoOptions,
     answer      |-> Nothing,
     explanation |-> <<>>,
     exception   |-> <<>>]

\* An option letter keeping the value it already has.
SetOptionOnce(q, key, value) ==
    [q EXCEPT !.options =
        [k \in (DOMAIN q.options) \cup {key} |->
            IF k = key /\ k \notin DOMAIN q.options THEN Just(value)
            ELSE q.options[k]]]

\* currentQuestion.options[key] = value
SetOption(q, key, value) ==
    [q EXCEPT !.options =
        [k \in (DOMAIN q.options) \cup {key} |->
            IF k = key THEN Just(value) ELSE q.options[k]]]

\* The locals with currentQuestion starting as an object instead of null.
ParseStartOpen ==
    [questions |-> <<>>,
     cur |-> Just([id |-> 0, subject |-> "", text |-> Nothing, options |-> NoOptions,
                   answer |-> Nothing, explanation |-> <<>>, exception |-> <<>>]),
     collectingExplanation |-> FALSE, collectingException |-> FALSE]

\* The locals of parse before the loop.
ParseStart ==
    [questions |-> <<>>, cur |-> Nothing,
     collectingExplanation |-> FALSE, collectingException |-> FALSE]

\* The flags never raised.
FlagsOff(st, expl, exc) ==
    [st EXCEPT !.collectingExplanation = FALSE, !.collectingException = FALSE]

\* A tag raising its flag without lowering the other one.
FlagsSticky(st, expl, exc) ==
    [st EXCEPT !.collectingExplanation = expl \/ (exc /\ @),
               !.collectingException = exc \/ (expl /\ @)]

Flags(st, expl, exc) ==
    [st EXCEPT !.collectingExplanation = expl, !.collectingException = exc]

\* One iteration of the loop of parse on the raw line.
ParseLine(st, raw, subject) ==
    LET line == Trim(raw)
        open == IsJust(st.cur)
        q    == Val(st.cur)
        qm   == QuestionMatch(line)
        om   == OptionMatch(line)
    IN  IF line = <<>> \/ StartsWith(line, HeaderPrefix) \/ Includes(line, BannerMarker)
          THEN st
        ELSE IF IsJust(qm)
          THEN [questions |-> IF open THEN Append(st.questions, q) ELSE st.questions,
                cur |-> Just(NewQuestion(Val(qm), subject)),
                collectingExplanation |-> FALSE,
                collectingException |-> FALSE]
        ELSE IF IsJust(om) /\ open
          THEN Flags([st EXCEPT !.cur = Just(SetOption(q, Val(om)[1], Val(om)[2]))],
                     FALSE, FALSE)
        ELSE IF StartsWith(line, AnswerTag) /\ open
          THEN Flags([st EXCEPT !.cur =
                         Just([q EXCEPT !.answer =
                                 Just(Trim(ReplaceFirst(line, AnswerTag, <<>>)))])],
                     FALSE, FALSE)
        ELSE IF StartsWith(line, ExplanationTag) /\ open
          THEN Flags([st EXCEPT !.cur =
                         Just([q EXCEPT !.explanation =
                                 Trim(ReplaceFirst(line, ExplanationTag, <<>>))])],
                     TRUE, FALSE)
        ELSE IF StartsWith(line, ExceptionTag) /\ open
          THEN Flags([st EXCEPT !.cur =
                         Just([q EXCEPT !.exception =
                                 Trim(ReplaceFirst(line, ExceptionTag, <<>>))])],
                     FALSE, TRUE)
        ELSE IF st.collectingExplanation /\ open
          THEN [st EXCEPT !.cur =
                   Just([q EXCEPT !.explanation = q.explanation \o <<" ">> \o line])]
        ELSE IF st.collectingException /\ open
          THEN [st EXCEPT !.cur =
                   Just([q EXCEPT !.exception = q.exception \o <<" ">> \o line])]
        ELSE st

RECURSIVE ParseLoop(_, _, _, _)
ParseLoop(st, lines, i, subject) ==
    IF i > Len(lines) THEN st
    ELSE ParseLoop(ParseLine(st, lines[i], subject), lines, i + 1, subject)

\* The return without the push of the question under construction.
ParseFlushForgets(st) == st.questions

\* After the loop: the question under construction is pushed, the list returned.
ParseFlush(st) ==
    IF IsJust(st.cur) THEN Append(st.questions, Val(st.cur)) ELSE st.questions

\* parse(text, subject): the loop over text.split('\n'), then the last flush.
Parse(text, subject) ==
    ParseFlush(ParseLoop(ParseStart, Split(text, "\n"), 1, subject))

\* No call of parse in progress.  src is the text's lines as they were written
\* down, hist[k] the locals after the k-th line.
\* The option keys of a record in the order A to D.
OptionKeys(q) == SelectSeq(<<"A", "B", "C", "D">>, LAMBDA key : key \in DOMAIN q.options)

\* !s on a string that may be undefined
Falsy(m) == ~IsJust(m) \/ Val(m) = <<>>

\* The errors of the text, of the number of options and of the answer, the
\* last one told by answerKnown.
FieldErrors(q, index, answerKnown) ==
    (IF Falsy(q.text) THEN <<[index |-> index, kind |-> "text"]>> ELSE <<>>)
    \o (IF Len(OptionKeys(q)) < 2 THEN <<[index |-> index, kind |-> "options"]>> ELSE <<>>)
    \o (IF Falsy(q.answer) THEN <<[index |-> index, kind |-> "answer"]>>
        ELSE IF ~answerKnown THEN <<[index |-> index, kind |-> "answer not in options"]>>
        ELSE <<>>)

\* !q.options[key] || q.options[key].trim() === ''  for each key
RECURSIVE EmptyOptionErrors(_, _, _)
EmptyOptionErrors(q, index, keys) ==
    IF keys = <<>> THEN <<>>
    ELSE (IF Falsy(q.options[Head(keys)]) \/ Trim(Val(q.options[Head(keys)])) = <<>>
          THEN <<[index |-> index, kind |-> "empty option"]>> ELSE <<>>)
         \o EmptyOptionErrors(q, index, Tail(keys))

\* optionKeys.includes(q.answer)
AnswerIsKey(q) == \E key \in DOMAIN q.options : Val(q.answer) = <<key>>

\* The names every object literal answers to through Object.prototype.
ObjectPrototypeNames ==
    {<<"c", "o", "n", "s", "t", "r", "u", "c", "t", "o", "r">>,
     <<"t", "o", "S", "t", "r", "i", "n", "g">>,
     <<"t", "o", "L", "o", "c", "a", "l", "e", "S", "t", "r", "i", "n", "g">>,
     <<"v", "a", "l", "u", "e", "O", "f">>,
     <<"h", "a", "s", "O", "w", "n", "P", "r", "o", "p", "e", "r", "t", "y">>,
     <<"i", "s", "P", "r", "o", "t", "o", "t", "y", "p", "e", "O", "f">>,
     <<"p", "r", "o", "p", "e", "r", "t", "y", "I", "s", "E", "n", "u", "m", "e", "r", "a", "b", "l", "e">>,
     <<"_", "_", "p", "r", "o", "t", "o", "_", "_">>}

\* q.options[q.answer] is truthy: an own key holding a non-empty string, or a
\* name found on Object.prototype.
AnswerIsProperty(q) ==
    \/ \E key \in DOMAIN q.options : Val(q.answer) = <<key>> /\ ~Falsy(q.options[key])
    \/ Val(q.answer) \in ObjectPrototypeNames

\* QuestionParser.validate of question-parser.js
RECURSIVE Validate(_, _)
Validate(questions, index) ==
    IF index > Len(questions) THEN <<>>
    ELSE LET q == questions[index]
         IN  FieldErrors(q, index, Falsy(q.answer) \/ AnswerIsKey(q))
             \o EmptyOptionErrors(q, index, OptionKeys(q))
             \o Validate(questions, index + 1)

\* QuestionParser.validate of part_000
RECURSIVE ValidateCompact(_, _)
ValidateCompact(questions, index) ==
    IF index > Len(questions) THEN <<>>
    ELSE LET q == questions[index]
         IN  FieldErrors(q, index, Falsy(q.answer) \/ AnswerIsProperty(q))
             \o EmptyOptionErrors(q, index, OptionKeys(q))
             \o ValidateCompact(questions, index + 1)

ParserIdle ==
    [pc |-> "idle", src |-> <<>>, subject |-> "", lines |-> <<>>, i |-> 0,
     st |-> ParseStart, hist |-> <<>>, result |-> <<>>,
     variant |-> "", errors |-> <<>>]


\* ------------------------------------------------------------------------
\* Question files the remote locations may hold
\* ------------------------------------------------------------------------

RECURSIVE JoinLines(_)
JoinLines(lines) ==
    IF lines = <<>> THEN <<>>
    ELSE IF Len(lines) = 1 THEN lines[1]
    ELSE lines[1] \o <<"\n">> \o JoinLines(Tail(lines))

LineHeader == <<"J", "A", "M", "B", " ", "X">>
LineQ1 == <<"1", ".", " ", "Q">>
LineQ2 == <<"2", ".", " ", "R">>
LineOptA == <<"A", ".", " ", "a">>
LineOptB == <<"B", ".", " ", "b">>
LineOptC == <<"C", ".", " ", "c">>
LineOptD == <<"D", ".", " ", "d">>
LineAnswerB == <<"A", "n", "s", "w", "e", "r", ":", " ", "B">>
LineExplanation == ExplanationTag \o <<" ", "e">>

\* An empty file.
DocEmpty == <<>>
\* One complete question.
DocOne ==
    JoinLines(<<LineQ1, LineOptA, LineOptB, LineOptC, LineOptD, LineAnswerB>>)
\* A header, one complete question, then a question with two options and no
\* Answer: line.
DocMixed ==
    JoinLines(<<LineHeader, LineQ1, LineOptA, LineOptB, LineOptC, LineOptD,
                LineAnswerB, LineExplanation, <<>>, LineQ2, LineOptA, LineOptB>>)


\* ------------------------------------------------------------------------
\* QUIZ_CONFIG
\* ------------------------------------------------------------------------

GithubBaseUrl == "https://raw.githubusercontent.com/artificialiman/Questt/refs/heads/main"

GithubSubjects ==
    [Physics     |-> "JAMB_Physics_Q1-35.txt",
     Mathematics |-> "JAMB_Mathematics_Q1-35.txt",
     English     |-> "JAMB_English_Q1-35.txt",
     Chemistry   |-> "JAMB_Chemistry_Q1-35.txt",
     Biology     |-> "JAMB_Biology_Q1-35.txt",
     Literature  |-> "JAMB_Literature_Q1-35.txt",
     Government  |-> "JAMB_Government_Q1-35.txt",
     CRS         |-> "JAMB_CRS_Q1-35.txt",
     Commerce    |-> "JAMB_Commerce_Q1-35.txt",
     Accounting  |-> "JAMB_Accounting_Q1-35.txt",
     Economics   |-> "JAMB_Economics_Q1-35.txt"]

QuestionBanks == [github |-> [baseUrl |-> GithubBaseUrl, subjects |-> GithubSubjects]]
ActiveSource == "github"
ConfigDuration == 900

Clusters ==
    [science |->
        <<[name |-> "Science Cluster A",
           subjects |-> <<"Mathematics", "English", "Physics", "Chemistry">>],
          [name |-> "Science Cluster B",
           subjects |-> <<"Biology", "English", "Physics", "Chemistry">>]>>,
     art |->
        <<[name |-> "Arts Cluster A",
           subjects |-> <<"English", "Literature", "Government", "CRS">>]>>,
     commercial |->
        <<[name |-> "Commercial Cluster A",
           subjects |-> <<"English", "Accounting", "Commerce", "Economics">>],
          [name |-> "Commercial Cluster B",
           subjects |-> <<"English", "Mathematics", "Economics", "Government">>]>>]

\* ------------------------------------------------------------------------
\* Results of calls, and the frame of a call in progress
\* ------------------------------------------------------------------------

\* A settled promise: fulfilled with value, or rejected with error.
Returned(v) == [kind |-> "returned", value |-> v, error |-> ""]
Rejected(e) == [kind |-> "rejected", value |-> <<>>, error |-> e]

\* x || '' on a string that may be undefined
OrEmpty(m) == IF IsJust(m) THEN Val(m) ELSE <<>>


VARIABLES
    quizData,      \* window.quizData
    quizMetadata,  \* window.quizMetadata
    search,        \* the parameters of window.location.search
    cache,         \* QuizLauncher.cache
    duration,      \* QuizLauncher.config.duration
    frame,         \* per caller: the QuizLauncher call it has in progress
    budget,        \* number of QuizLauncher calls the session may still start
    past           \* what the calls that are over did, oldest first

launcherVars ==
    <<quizData, quizMetadata, search, cache, duration, frame, budget, past>>

VARIABLES
    fb,       \* the archive/live loader call in progress
    remote    \* per subject of that call: what its archive and live locations hold

fallbackVars == <<fb, remote>>

VARIABLES
    parser    \* the call of QuestionParser.parse in progress

parserVars == <<parser>>

VARIABLES
    norm,     \* the call of a normalising function of the page scripts
    quiz      \* the QuizState and the QuizUI bootQuiz made, with the page's panels

pageVars == <<norm, quiz>>

VARIABLES
    app       \* the landing page's document, its GrantApp and the shared localStorage

appVars == <<app>>

VARIABLES
    inst      \* one QuestionParser with the arrays its calls of parse made

instanceVars == <<inst>>

Callers == {"c1", "c2"}

\* No call in progress.  attempted, settled and fetched record, for the call in
\* progress, the subjects loadSubject was called with, what each of these calls
\* settled with, and the URLs passed to fetch.
IdleFrame ==
    [op           |-> "none",
     pc           |-> "idle",
     subjects     |-> <<>>,
     i            |-> 0,
     allQuestions |-> <<>>,
     errors       |-> <<>>,
     subject      |-> "",
     inCluster    |-> FALSE,
     inner        |-> Nothing,
     body         |-> <<>>,
     attempted    |-> <<>>,
     settled      |-> <<>>,
     fetched      |-> <<>>,
     outcome      |-> Nothing]

\* The top-level call settles.
Finish(f, r) == [f EXCEPT !.pc = "done", !.outcome = Just(r)]

\* ------------------------------------------------------------------------
\* QuizLauncher
\* ------------------------------------------------------------------------

EmbeddedSubject(metadata) ==
    IF IsJust(metadata) /\ IsJust(Val(metadata).subject) /\ Val(Val(metadata).subject) # ""
    THEN Val(Val(metadata).subject)
    ELSE "Practice"

\* The conversion filling the result from the last entry backwards.
ConvertEmbeddedReversed(rawData, metadata) ==
    [n \in 1..Len(rawData) |->
        LET q == rawData[Len(rawData) + 1 - n]
        IN  [id          |-> q.id,
             subject     |-> EmbeddedSubject(metadata),
             text        |-> q.text,
             options     |-> [A |-> q.optionA, B |-> q.optionB,
                              C |-> q.optionC, D |-> q.optionD],
             answer      |-> q.answer,
             explanation |-> OrEmpty(q.explanation),
             exception   |-> OrEmpty(q.exception)]]

ConvertEmbeddedData(rawData, metadata) ==
    [n \in 1..Len(rawData) |->
        LET q == rawData[n]
        IN  [id          |-> q.id,
             subject     |-> EmbeddedSubject(metadata),
             text        |-> q.text,
             options     |-> [A |-> q.optionA, B |-> q.optionB,
                              C |-> q.optionC, D |-> q.optionD],
             answer      |-> q.answer,
             explanation |-> OrEmpty(q.explanation),
             exception   |-> OrEmpty(q.exception)]]

\* The lookup without its check: an unknown subject gives `${baseUrl}/undefined`.
GetQuestionUrlUnchecked(subject) ==
    LET source == QuestionBanks[ActiveSource]
    IN  IF subject \notin DOMAIN source.subjects
        THEN Returned(<<source.baseUrl, "undefined">>)
        ELSE Returned(<<source.baseUrl, source.subjects[subject]>>)

GetQuestionUrl(subject) ==
    IF ActiveSource \notin DOMAIN QuestionBanks THEN Rejected("Invalid source")
    ELSE LET source == QuestionBanks[ActiveSource]
         IN  IF subject \notin DOMAIN source.subjects
             THEN Rejected("Subject not found")
             ELSE Returned(<<source.baseUrl, source.subjects[subject]>>)

\* The promise of loadSubject settles with r: loadCluster resumes from its
\* await in a later step, any other caller returns what it awaited.
SubjectSettled(f, r) ==
    LET g == [f EXCEPT !.settled = Append(@, [subject |-> f.subject, result |-> r,
                                              fetch |-> f.pc \in {"await_fetch", "await_text"}])]
    IN  IF f.inCluster
        THEN [g EXCEPT !.pc = "await_subject", !.inner = Just(r)]
        ELSE Finish(g, r)

\* The cache test asking for a non-empty list.
CacheHitNonEmpty(c, subject) == subject \in DOMAIN c /\ c[subject] # <<>>

\* A cache entry is an array, which is truthy even when empty.
CacheHit(c, subject) == subject \in DOMAIN c

\* loadSubject(subject) up to its first await.
LoadSubjectCall(f, c, subject) ==
    LET g   == [f EXCEPT !.subject = subject, !.attempted = Append(@, subject)]
        url == GetQuestionUrl(subject)
    IN  IF CacheHit(c, subject) THEN SubjectSettled(g, Returned(c[subject]))
        ELSE IF url.kind = "rejected" THEN SubjectSettled(g, url)
        ELSE [g EXCEPT !.pc = "await_fetch", !.fetched = Append(@, url.value)]

\* The result object of loadCluster; initializeFromUrl returns its questions.
ClusterResult(f) ==
    IF f.op = "loadCluster"
    THEN [questions |-> f.allQuestions, errors |-> f.errors]
    ELSE f.allQuestions

\* loadCluster at the head of its loop, f.i being the next subject.
ClusterLoop(f, c) ==
    IF f.i > Len(f.subjects)
    THEN IF Len(f.allQuestions) = 0
         THEN Finish(f, Rejected("No questions loaded for cluster."))
         ELSE Finish(f, Returned(ClusterResult(f)))
    ELSE LoadSubjectCall(f, c, f.subjects[f.i])

\* loadCluster(subjects) up to its first await.
LoadClusterCall(f, c, subjects) ==
    ClusterLoop([f EXCEPT !.subjects = subjects, !.i = 1, !.inCluster = TRUE,
                          !.allQuestions = <<>>, !.errors = <<>>], c)

\* The loop with try/catch around it instead of inside it: the first failing
\* subject ends the loop.
ClusterPushAbort(f, r) ==
    IF r.kind = "returned"
    THEN [f EXCEPT !.allQuestions = @ \o r.value, !.i = @ + 1, !.inner = Nothing]
    ELSE [f EXCEPT !.errors = Append(@, [subject |-> f.subject, error |-> r.error]),
                   !.i = Len(f.subjects) + 1, !.inner = Nothing]

\* The loop body putting the newest subject's records in front.
ClusterPushFront(f, r) ==
    IF r.kind = "returned"
    THEN [f EXCEPT !.allQuestions = r.value \o @, !.i = @ + 1, !.inner = Nothing]
    ELSE [f EXCEPT !.errors = Append(@, [subject |-> f.subject, error |-> r.error]),
                   !.i = @ + 1, !.inner = Nothing]

\* The body of the loop after the awaited loadSubject settled with r.
ClusterPush(f, r) ==
    IF r.kind = "returned"
    THEN [f EXCEPT !.allQuestions = @ \o r.value, !.i = @ + 1, !.inner = Nothing]
    ELSE [f EXCEPT !.errors = Append(@, [subject |-> f.subject, error |-> r.error]),
                   !.i = @ + 1, !.inner = Nothing]

GetCluster(stream, clusterIndex) ==
    IF stream \notin DOMAIN Clusters THEN Rejected("Invalid stream")
    ELSE LET streamClusters == Clusters[stream]
         IN  IF IsJust(clusterIndex) /\ Val(clusterIndex) + 1 \in 1..Len(streamClusters)
             THEN Returned(Just(streamClusters[Val(clusterIndex) + 1]))
             ELSE Returned(Nothing)

\* window.quizData && Array.isArray(window.quizData) && window.quizData.length > 0
HasEmbedded(data) == data.kind = "array" /\ Len(data.items) > 0

\* The subject name one piece of params.get('subjects').split(',') denotes.
PieceName(piece) == IF piece = <<>> THEN "" ELSE piece[1]

SplitSubjects(tokens) ==
    LET pieces == Split(tokens, ",")
    IN  [n \in 1..Len(pieces) |-> PieceName(pieces[n])]

\* initializeFromUrl below the embedded path: the URL parameters.
InitializeFromParams(f, c, params) ==
    IF IsJust(params.subject) THEN LoadSubjectCall(f, c, Val(params.subject))
    ELSE IF IsJust(params.stream)
      THEN LET index   == ParseInt(IF OrEmpty(params.cluster) = <<>> THEN <<"0">>
                                   ELSE Val(params.cluster))
               cluster == GetCluster(Val(params.stream), index)
           IN  IF cluster.kind = "rejected" THEN Finish(f, cluster)
               ELSE IF cluster.value = Nothing THEN Finish(f, Rejected("TypeError"))
               ELSE LoadClusterCall(f, c, Val(cluster.value).subjects)
    ELSE IF IsJust(params.subjects)
      THEN LoadClusterCall(f, c, SplitSubjects(Val(params.subjects)))
    ELSE Finish(f, Rejected("No questions found."))


\* ------------------------------------------------------------------------
\* The environment: what a fetch settles with, and the page the launcher runs in
\* ------------------------------------------------------------------------

NetworkError == [kind |-> "error", ok |-> FALSE, body |-> <<>>]
HttpError == [kind |-> "response", ok |-> FALSE, body |-> <<>>]
OkResponse(doc) == [kind |-> "response", ok |-> TRUE, body |-> doc]

RemoteDocs == {DocEmpty, DocMixed}
Responses == {NetworkError, HttpError} \cup {OkResponse(d) : d \in RemoteDocs}

\* Entries of window.quizData as generate_quiz.py writes them; the second one
\* has a blank text, no option C, an empty option D and an answer outside A-D.
EntryGood ==
    [id |-> 1, text |-> Just(<<"Q">>),
     optionA |-> Just(<<"a">>), optionB |-> Just(<<"b">>),
     optionC |-> Just(<<"c">>), optionD |-> Just(<<"d">>),
     answer |-> Just(<<"B">>), explanation |-> Just(<<"e">>), exception |-> Nothing]
EntryBad ==
    [id |-> 2, text |-> Just(<<" ">>),
     optionA |-> Just(<<"a">>), optionB |-> Just(<<"b">>),
     optionC |-> Nothing, optionD |-> Just(<<>>),
     answer |-> Just(<<"E">>), explanation |-> Nothing, exception |-> Nothing]

QuizDataInputs ==
    {[kind |-> "undefined", items |-> <<>>],
     [kind |-> "object", items |-> <<>>],
     [kind |-> "array", items |-> <<>>],
     [kind |-> "array", items |-> <<EntryGood, EntryBad>>]}

QuizMetadataInputs ==
    {Nothing, Just([subject |-> Just("Biology"), timerMinutes |-> Just(30)])}

SubjectInputs == {"Physics", "English", "Zoology"}

SearchInputs ==
    [subject  : {Nothing, Just("Physics"), Just("Zoology")},
     stream   : {Nothing, Just("science"), Just("bogus")},
     cluster  : {Nothing, Just(<<"1">>), Just(<<"7">>)},
     subjects : {Nothing, Just(<<"Zoology", ",", "Physics">>)}]

\* A page that sets nothing, opened without parameters.
BlankPage ==
    [quizData     |-> [kind |-> "undefined", items |-> <<>>],
     quizMetadata |-> Nothing,
     search       |-> [subject |-> Nothing, stream |-> Nothing,
                       cluster |-> Nothing, subjects |-> Nothing]]

\* Subject lists loadCluster is called with directly: every list over
\* SubjectInputs of at most MaxListLen subjects.
MaxListLen == 2
MaxCalls == 2

RECURSIVE ListsUpTo(_, _)
ListsUpTo(S, n) ==
    IF n = 0 THEN {<<>>}
    ELSE LET shorter == ListsUpTo(S, n - 1)
         IN  shorter \cup {Append(l, x) : l \in shorter, x \in S}

ClusterInputs == ListsUpTo(SubjectInputs, MaxListLen)

\* ------------------------------------------------------------------------
\* Actions of the launcher
\* ------------------------------------------------------------------------

\* A session is up to MaxCalls calls, one after the other, on one launcher: calls
\* of loadSubject, closed by at most one call of loadCluster or initializeFromUrl.
\* A page runs the launcher or the archive/live loaders, not both.
CanCall(p) == frame[p].pc \in {"idle", "done"} /\ budget > 0 /\ fb.pc = "idle"

\* The record kept of the call a caller made before the one it starts now.
Archived(p) ==
    IF frame[p].pc = "done"
    THEN Append(past, [settled |-> frame[p].settled, fetched |-> frame[p].fetched])
    ELSE past

\* launcher.initializeFromUrl(), on a page that holds data and metadata as
\* window.quizData and window.quizMetadata and was opened with params.
CallInitializeFromUrl(p, data, metadata, params) ==
    /\ CanCall(p)
    /\ budget' = 0
    /\ quizData' = data
    /\ quizMetadata' = metadata
    /\ search' = params
    /\ LET f == [IdleFrame EXCEPT !.op = "initializeFromUrl"]
       IN  IF HasEmbedded(data)
           THEN /\ duration' =
                      IF /\ IsJust(metadata)
                         /\ IsJust(Val(metadata).timerMinutes)
                         /\ Val(Val(metadata).timerMinutes) # 0
                      THEN Val(Val(metadata).timerMinutes) * 60
                      ELSE duration
                /\ frame' = [frame EXCEPT ![p] =
                      Finish(f, Returned(ConvertEmbeddedData(data.items, metadata)))]
           ELSE /\ duration' = duration
                /\ frame' = [frame EXCEPT ![p] = InitializeFromParams(f, cache, params)]
    /\ past' = Archived(p)
    /\ UNCHANGED <<cache, fallbackVars, parserVars, pageVars, appVars, instanceVars>>

\* launcher.loadCluster(subjects)
CallLoadCluster(p, subjects) ==
    /\ CanCall(p)
    /\ budget' = 0
    /\ frame' = [frame EXCEPT ![p] =
          LoadClusterCall([IdleFrame EXCEPT !.op = "loadCluster"], cache, subjects)]
    /\ past' = Archived(p)
    /\ UNCHANGED <<quizData, quizMetadata, search, cache, duration, fallbackVars, parserVars, pageVars, appVars, instanceVars>>

\* launcher.loadSubject(subject)
CallLoadSubject(p, subject) ==
    /\ CanCall(p)
    /\ budget' = budget - 1
    /\ frame' = [frame EXCEPT ![p] =
          LoadSubjectCall([IdleFrame EXCEPT !.op = "loadSubject"], cache, subject)]
    /\ past' = Archived(p)
    /\ UNCHANGED <<quizData, quizMetadata, search, cache, duration, fallbackVars, parserVars, pageVars, appVars, instanceVars>>

\* The resumption remembering a failed fetch as an empty list.
FetchSettlesCaching(p, r) ==
    /\ frame[p].pc = "await_fetch"
    /\ frame' = [frame EXCEPT ![p] =
          IF r.kind = "error" THEN SubjectSettled(@, Rejected("Failed to fetch"))
          ELSE IF ~r.ok THEN SubjectSettled(@, Rejected("HTTP"))
          ELSE [@ EXCEPT !.pc = "await_text", !.body = r.body]]
    /\ cache' = IF r.kind = "response" /\ r.ok THEN cache
                ELSE [s \in (DOMAIN cache) \cup {frame[p].subject} |->
                         IF s = frame[p].subject THEN <<>> ELSE cache[s]]
    /\ UNCHANGED <<quizData, quizMetadata, search, duration, budget, past,
                   fallbackVars, parserVars, pageVars, appVars, instanceVars>>

\* loadSubject resumes from await fetch(url): the fetch rejected, or it gave a
\* response whose ok is checked before response.text() is awaited.
FetchSettles(p, r) ==
    /\ frame[p].pc = "await_fetch"
    /\ frame' = [frame EXCEPT ![p] =
          IF r.kind = "error" THEN SubjectSettled(@, Rejected("Failed to fetch"))
          ELSE IF ~r.ok THEN SubjectSettled(@, Rejected("HTTP"))
          ELSE [@ EXCEPT !.pc = "await_text", !.body = r.body]]
    /\ UNCHANGED <<quizData, quizMetadata, search, cache, duration, budget, past,
                   fallbackVars, parserVars, pageVars, appVars, instanceVars>>

\* loadSubject resumes from await response.text(): parse, store, return.
TextSettles(p) ==
    /\ frame[p].pc = "await_text"
    /\ LET questions == Parse(frame[p].body, frame[p].subject)
       IN  /\ cache' = [s \in (DOMAIN cache) \cup {frame[p].subject} |->
                           IF s = frame[p].subject THEN questions ELSE cache[s]]
           /\ frame' = [frame EXCEPT ![p] = SubjectSettled(@, Returned(questions))]
    /\ UNCHANGED <<quizData, quizMetadata, search, duration, budget, past,
                   fallbackVars, parserVars, pageVars, appVars, instanceVars>>

\* loadCluster resumes from await this.loadSubject(subject): push or catch,
\* then on to the next subject or out of the loop.
ClusterResumes(p) ==
    /\ frame[p].pc = "await_subject"
    /\ frame' = [frame EXCEPT ![p] = ClusterLoop(ClusterPush(@, Val(@.inner)), cache)]
    /\ UNCHANGED <<quizData, quizMetadata, search, cache, duration, budget, past,
                   fallbackVars, parserVars, pageVars, appVars, instanceVars>>

NoCache == [s \in {} |-> <<>>]

\* The inputs of a call are drawn only where a call can be made.
LauncherNext ==
    \E p \in {"c1"} :
        \/ /\ CanCall(p)
           /\ \E data \in QuizDataInputs, metadata \in QuizMetadataInputs,
                 params \in SearchInputs :
                   CallInitializeFromUrl(p, data, metadata, params)
        \/ /\ CanCall(p)
           /\ \E subjects \in ClusterInputs : CallLoadCluster(p, subjects)
        \/ /\ CanCall(p)
           /\ \E subject \in SubjectInputs : CallLoadSubject(p, subject)
        \/ \E r \in Responses : FetchSettles(p, r)
        \/ TextSettles(p)
        \/ ClusterResumes(p)


\* ------------------------------------------------------------------------
\* The archive/live loaders: loadSubjectWithFallback and loadAllSubjects
\* ------------------------------------------------------------------------


ArchiveBase ==
    "https://raw.githubusercontent.com/artificialiman/Questt-resources/refs/heads/main/archive"
QuesttBase == "https://raw.githubusercontent.com/artificialiman/Questt/refs/heads/main"

SubjectFiles ==
    [Physics     |-> <<"JAMB_Physics_Q1-35.txt">>,
     Mathematics |-> <<"JAMB_Mathematics_Q1-35.txt">>,
     Math        |-> <<"JAMB_Mathematics_Q1-35.txt">>,
     English     |-> <<"JAMB_English_Q1-35.txt">>,
     Chemistry   |-> <<"JAMB_Chemistry_Q1-35.txt">>,
     Biology     |-> <<"JAMB_Biology_Q1-35.txt">>,
     Literature  |-> <<"JAMB_Literature_Q1-35.txt">>,
     Government  |-> <<"JAMB_Government_Q1-35.txt">>,
     CRS         |-> <<"JAMB_CRS_Q1-35.txt">>,
     Commerce    |-> <<"JAMB_Commerce_Q1-35.txt">>,
     Accounting  |-> <<"JAMB_Accounting_Q1-35.txt">>,
     Economics   |-> <<"JAMB_Economics_Q1-35.txt">>]

\* The subjects the loadAllSubjects of question-parser.js loads.
FixedSubjects == <<"Physics", "Mathematics", "English", "Chemistry">>

DigitChar(d) ==
    CASE d = 0 -> "0" [] d = 1 -> "1" [] d = 2 -> "2" [] d = 3 -> "3"
      [] d = 4 -> "4" [] d = 5 -> "5" [] d = 6 -> "6" [] d = 7 -> "7"
      [] d = 8 -> "8" [] d = 9 -> "9"

\* String(n) for a natural number n
RECURSIVE NumberToString(_)
NumberToString(n) ==
    IF n < 0 THEN <<"-">> \o NumberToString(0 - n)
    ELSE IF n < 10 THEN <<DigitChar(n)>>
    ELSE NumberToString(n \div 10) \o <<DigitChar(n % 10)>>

\* The string left as it is.
PadStartNone(str) == str

\* str.padStart(2, '0')
PadStart2(str) ==
    IF Len(str) >= 2 THEN str
    ELSE IF Len(str) = 1 THEN <<"0">> \o str
    ELSE <<"0", "0">>

PeriodToDayRange(period) ==
    LET s == (period * 2) - 1
    IN  PadStart2(NumberToString(s)) \o <<"-">> \o PadStart2(NumberToString(s + 1))

ArchiveUrl(period, filename) ==
    [base |-> ArchiveBase,
     dir  |-> Just(<<"d", "a", "y", "-">> \o PeriodToDayRange(period)),
     file |-> filename]

LiveUrl(filename) == [base |-> QuesttBase, dir |-> Nothing, file |-> filename]

\* `${baseUrl}/JAMB_${subject}_Q1-35.txt`
FixedUrl(subject) ==
    [base |-> QuesttBase, dir |-> Nothing, file |-> <<"JAMB_", subject, "_Q1-35.txt">>]

\* The test of the period reduced to its being given.
UsesArchiveWhenGiven(period) == IsJust(period)

\* period && period >= 1
UsesArchive(period) == IsJust(period) /\ Val(period) >= 1

NoQuestions == [s \in {} |-> <<>>]

FbIdle ==
    [op           |-> "none",
     pc           |-> "idle",
     subjects     |-> <<>>,
     i            |-> 0,
     period       |-> Nothing,
     subject      |-> "",
     tier         |-> "",
     body         |-> <<>>,
     allQuestions |-> NoQuestions,
     inner        |-> <<>>,
     attempted    |-> <<>>,
     settled      |-> <<>>,
     fetched      |-> <<>>,
     outcome      |-> Nothing]

\* allQuestions[subject] = questions
SetKey(obj, subject, questions) ==
    [s \in (DOMAIN obj) \cup {subject} |-> IF s = subject THEN questions ELSE obj[s]]

\* parser.parseFromUrl(url, subject) up to its first await.
FbFetch(f, tier, url) ==
    [f EXCEPT !.pc = "await_fetch", !.tier = tier,
              !.fetched = Append(@, [tier |-> tier, url |-> url])]

\* loadSubjectWithFallback returns questions: loadAllSubjects resumes from its
\* await in a later step, a direct caller has its result.
FbSubjectSettled(f, questions) ==
    LET g == [f EXCEPT !.settled =
                 Append(@, [subject |-> f.subject, questions |-> questions])]
    IN  IF f.op = "loadAllSubjects"
        THEN [g EXCEPT !.pc = "await_subject", !.inner = questions]
        ELSE Finish(g, Returned(questions))

\* The two sources tried in the other order: nothing precedes the live one.
LoadLiveFirst(f, subject, period) ==
    LET g == [f EXCEPT !.subject = subject, !.attempted = Append(@, subject)]
    IN  IF subject \notin DOMAIN SubjectFiles THEN FbSubjectSettled(g, <<>>)
        ELSE FbFetch(g, "live", LiveUrl(SubjectFiles[subject]))

\* loadSubjectWithFallback(subject, period) up to its first await.
LoadWithFallbackCall(f, subject, period) ==
    LET g == [f EXCEPT !.subject = subject, !.attempted = Append(@, subject)]
    IN  IF subject \notin DOMAIN SubjectFiles THEN FbSubjectSettled(g, <<>>)
        ELSE IF UsesArchive(period)
          THEN FbFetch(g, "archive", ArchiveUrl(Val(period), SubjectFiles[subject]))
        ELSE FbFetch(g, "live", LiveUrl(SubjectFiles[subject]))

\* loadSubjectWithFallback after a source threw or parsed to no question.
FallbackMissed(f) ==
    IF f.tier = "archive" THEN FbFetch(f, "live", LiveUrl(SubjectFiles[f.subject]))
    ELSE FbSubjectSettled(f, <<>>)

\* loadAllSubjects(subjects, period) at the head of its loop.
AllSubjectsLoop(f) ==
    IF f.i > Len(f.subjects) THEN Finish(f, Returned(f.allQuestions))
    ELSE LoadWithFallbackCall(f, f.subjects[f.i], f.period)

\* loadAllSubjects() of question-parser.js at the head of its loop.
FixedLoop(f) ==
    IF f.i > Len(f.subjects) THEN Finish(f, Returned(f.allQuestions))
    ELSE LET subject == f.subjects[f.i]
         IN  FbFetch([f EXCEPT !.subject = subject, !.attempted = Append(@, subject)],
                     "live", FixedUrl(subject))

\* Its loop body after parseFromUrl settled: the assignment in the try block
\* or the one in the catch block.
FixedAssign(f, r) ==
    LET questions == IF r.kind = "returned" THEN r.value ELSE <<>>
    IN  FixedLoop([f EXCEPT !.allQuestions = SetKey(@, f.subject, questions),
                            !.settled = Append(@, [subject |-> f.subject,
                                                   questions |-> questions]),
                            !.i = @ + 1])

\* parseFromUrl rejected (both variants rethrow what fetch or the status check threw).
ParseFromUrlRejected(f, e) ==
    IF f.op = "loadAllSubjectsFixed" THEN FixedAssign(f, Rejected(e))
    ELSE FallbackMissed(f)

\* parseFromUrl returned questions.
ParseFromUrlReturned(f, questions) ==
    IF f.op = "loadAllSubjectsFixed" THEN FixedAssign(f, Returned(questions))
    ELSE IF Len(questions) > 0 THEN FbSubjectSettled(f, questions)
    ELSE FallbackMissed(f)


\* What the locations of the subjects of one call hold while it runs.  When the
\* period rules the archive out, only the live location is varied.
FallbackDocs == {DocEmpty, DocOne, DocMixed}
FallbackResponses == {NetworkError, HttpError} \cup {OkResponse(d) : d \in FallbackDocs}

RemoteStates(useArchive) ==
    [archive : IF useArchive THEN FallbackResponses ELSE {NetworkError},
     live    : FallbackResponses]

Range(seq) == {seq[n] : n \in 1..Len(seq)}

Remotes(subjects, useArchive) ==
    [Range(subjects) \cap DOMAIN SubjectFiles -> RemoteStates(useArchive)]

NoRemote == [s \in {} |-> NetworkError]

PeriodInputs == {Nothing, Just(-1), Just(0), Just(1), Just(3), Just(5)}
FallbackSubjectInputs == {"Physics", "Math", "Zoology"}
FallbackListInputs ==
    {<<>>, <<"Zoology">>, <<"Physics">>, <<"Zoology", "Physics">>,
     <<"Physics", "Physics">>, <<"Physics", "Zoology", "Math">>}

\* ------------------------------------------------------------------------
\* Actions of the archive/live loaders
\* ------------------------------------------------------------------------

\* These loaders keep nothing between calls: one call is followed to its end.
FbCanCall ==
    /\ fb.pc = "idle"
    /\ budget = MaxCalls
    /\ \A p \in Callers : frame[p].pc = "idle"

\* loadSubjectWithFallback(subject, period)
CallLoadSubjectWithFallback(subject, period, env) ==
    /\ FbCanCall
    /\ remote' = env
    /\ fb' = LoadWithFallbackCall(
                [FbIdle EXCEPT !.op = "loadSubjectWithFallback", !.period = period],
                subject, period)
    /\ UNCHANGED <<launcherVars, parserVars, pageVars, appVars, instanceVars>>

\* loadAllSubjects(subjects, period) of part_000
CallLoadAllSubjects(subjects, period, env) ==
    /\ FbCanCall
    /\ remote' = env
    /\ fb' = AllSubjectsLoop(
                [FbIdle EXCEPT !.op = "loadAllSubjects", !.period = period,
                               !.subjects = subjects, !.i = 1])
    /\ UNCHANGED <<launcherVars, parserVars, pageVars, appVars, instanceVars>>

\* loadAllSubjects() of question-parser.js
CallLoadAllSubjectsFixed(env) ==
    /\ FbCanCall
    /\ remote' = env
    /\ fb' = FixedLoop(
                [FbIdle EXCEPT !.op = "loadAllSubjectsFixed",
                               !.subjects = FixedSubjects, !.i = 1])
    /\ UNCHANGED <<launcherVars, parserVars, pageVars, appVars, instanceVars>>

\* parseFromUrl resumes from await fetch(url).
FbFetchSettles ==
    /\ fb.pc = "await_fetch"
    /\ LET r == remote[fb.subject][fb.tier]
       IN  fb' = IF r.kind = "error" THEN ParseFromUrlRejected(fb, "Failed to fetch")
                 ELSE IF ~r.ok THEN ParseFromUrlRejected(fb, "HTTP")
                 ELSE [fb EXCEPT !.pc = "await_text", !.body = r.body]
    /\ UNCHANGED <<remote, launcherVars, parserVars, pageVars, appVars, instanceVars>>

\* parseFromUrl resumes from await response.text() and returns the parse.
FbTextSettles ==
    /\ fb.pc = "await_text"
    /\ fb' = ParseFromUrlReturned(fb, Parse(fb.body, fb.subject))
    /\ UNCHANGED <<remote, launcherVars, parserVars, pageVars, appVars, instanceVars>>

\* loadAllSubjects of part_000 resumes from await loadSubjectWithFallback(...).
AllSubjectsResumes ==
    /\ fb.pc = "await_subject"
    /\ fb' = AllSubjectsLoop([fb EXCEPT !.allQuestions = SetKey(@, fb.subject, fb.inner),
                                        !.i = @ + 1, !.inner = <<>>])
    /\ UNCHANGED <<remote, launcherVars, parserVars, pageVars, appVars, instanceVars>>

FallbackNext ==
    \/ /\ FbCanCall
       /\ \E subject \in FallbackSubjectInputs, period \in PeriodInputs :
            \E env \in Remotes(<<subject>>, UsesArchive(period)) :
               CallLoadSubjectWithFallback(subject, period, env)
    \/ /\ FbCanCall
       /\ \E subjects \in FallbackListInputs, period \in PeriodInputs :
            \E env \in Remotes(subjects, UsesArchive(period)) :
               CallLoadAllSubjects(subjects, period, env)
    \/ /\ FbCanCall
       /\ \E env \in Remotes(FixedSubjects, FALSE) : CallLoadAllSubjectsFixed(env)
    \/ FbFetchSettles
    \/ FbTextSettles
    \/ AllSubjectsResumes

\* ------------------------------------------------------------------------
\* Texts QuestionParser.parse is called with
\* ------------------------------------------------------------------------

\* A line of a question file as it is written down: what it is meant to be
\* (kind), its number or option letter (head), its content (body) and the white
\* space around it.
SrcLine(kind, head, body, lead, trail) ==
    [kind |-> kind, head |-> head, body |-> body, lead |-> lead, trail |-> trail]

\* The characters of a line between its surrounding white space.
Core(l) ==
    CASE l.kind = "question"    -> l.head \o <<".", " ">> \o l.body
      [] l.kind = "option"      -> l.head \o <<".", " ">> \o l.body
      [] l.kind = "answer"      -> AnswerTag \o <<" ">> \o l.body
      [] l.kind = "explanation" -> ExplanationTag \o <<" ">> \o l.body
      [] l.kind = "exception"   -> ExceptionTag \o <<" ">> \o l.body
      [] l.kind = "header"      -> HeaderPrefix \o l.body
      [] l.kind = "plain"       -> l.body
      [] l.kind = "blank"       -> <<>>

Render(l) == l.lead \o Core(l) \o l.trail

\* The text made of the given lines.
TextOf(src) == JoinLines([n \in 1..Len(src) |-> Render(src[n])])

LnQ1 == SrcLine("question", <<"1">>, <<"Q">>, <<>>, <<>>)
\* A number out of sequence, indented, at the end of a CRLF line.
LnQ12 == SrcLine("question", <<"1", "2">>, <<"R">>, <<" ">>, <<"\r">>)
\* A numbered line whose text is the banner marker.
LnQBanner == SrcLine("question", <<"3">>, BannerMarker, <<>>, <<>>)
LnHeader == SrcLine("header", <<>>, <<"X">>, <<>>, <<>>)
LnBlank == SrcLine("blank", <<>>, <<>>, <<" ">>, <<>>)
LnOptA == SrcLine("option", <<"A">>, <<"a">>, <<>>, <<>>)
LnAnswer == SrcLine("answer", <<>>, <<"B">>, <<>>, <<>>)
LnExpl == SrcLine("explanation", <<>>, <<"e">>, <<>>, <<>>)
LnExc == SrcLine("exception", <<>>, <<"x">>, <<>>, <<>>)
LnPlain == SrcLine("plain", <<>>, <<"p">>, <<>>, <<>>)
\* Plain lines that come close to a numbered line and to an option line.
LnNearQuestion == SrcLine("plain", <<>>, <<"1", ".", "Q">>, <<>>, <<>>)
LnNearOption == SrcLine("plain", <<>>, <<"E", ".", " ", "z">>, <<>>, <<>>)

LnOptB == SrcLine("option", <<"B">>, <<"b">>, <<>>, <<>>)
LnAnswerA == SrcLine("answer", <<>>, <<"A">>, <<>>, <<>>)
LnAnswerC == SrcLine("answer", <<>>, <<"C">>, <<>>, <<>>)
LnAnswerNone == SrcLine("answer", <<>>, <<>>, <<>>, <<>>)
\* An answer naming a property every object has.
LnAnswerConstructor == SrcLine("answer", <<>>, <<"c", "o", "n", "s", "t", "r", "u", "c", "t", "o", "r">>, <<>>, <<>>)

LineVocabulary ==
    {LnQ1, LnQ12, LnQBanner, LnHeader, LnBlank, LnOptA, LnAnswer, LnExpl, LnExc, LnPlain}

MaxLines == 3

\* Every text of at most MaxLines lines over the vocabulary.
GenericSources == ListsUpTo(LineVocabulary, MaxLines)

\* Longer texts: a tag with two continuation lines, a continuation across a
\* blank and a header line, a tag ending a continuation, near misses.
ScenarioSources ==
    {<<LnQ1, LnExpl, LnPlain, LnNearQuestion>>,
     <<LnQ1, LnExc, LnPlain, LnNearOption>>,
     <<LnQ1, LnExpl, LnBlank, LnPlain>>,
     <<LnQ1, LnExc, LnHeader, LnPlain, LnQ12>>,
     <<LnQ1, LnExpl, LnOptA, LnPlain>>,
     <<LnQ1, LnNearQuestion, LnNearOption, LnAnswer>>,
     <<LnOptA, LnAnswer, LnExpl, LnPlain, LnQ12>>}

\* One question with its four options, its answer and a one-line explanation.
WellFormed(num, text, a, answer, explanation, lead, trail) ==
    <<SrcLine("question", num, text, lead, trail),
      SrcLine("option", <<"A">>, a, lead, trail),
      SrcLine("option", <<"B">>, <<"b">>, lead, trail),
      SrcLine("option", <<"C">>, <<"c">>, lead, trail),
      SrcLine("option", <<"D">>, <<"d", ".">>, lead, trail),
      SrcLine("answer", <<>>, answer, lead, trail),
      SrcLine("explanation", <<>>, explanation, lead, trail)>>

WellFormedSources ==
    {WellFormed(num, text, a, answer, explanation, pad[1], pad[2]) :
        num \in {<<"1">>, <<"0", "7">>},
        text \in {<<"Q">>, <<"Q", " ", "2", ".", " ", "?">>},
        a \in {<<"a">>, <<"A", "n", "s", "w", "e", "r", ":", " ", "a">>},
        answer \in {<<"A">>, <<"D">>},
        explanation \in {<<"e">>, <<"e", " ", " ", "f">>},
        pad \in {<< <<>>, <<>> >>, << <<" ", "\t">>, <<" ", "\r">> >>}}

\* Records for validate: two options and a good answer, one option, an answer
\* that is no key, no answer, an answer naming an inherited property.
ValidateSources ==
    {<<LnQ1, LnOptA, LnOptB, LnAnswerA>>,
     <<LnQ1, LnOptA, LnAnswerA>>,
     <<LnQ1, LnOptA, LnOptB, LnAnswerC>>,
     <<LnQ1, LnOptA, LnOptB, LnAnswerNone>>,
     <<LnQ1, LnOptA, LnOptB, LnAnswerConstructor>>,
     <<LnQ1, LnOptA, LnOptB, LnAnswerA, LnQ12, LnOptA, LnAnswer>>}

\* A second option A, Explanation: and Exception: line with other contents.
LnOptAz == SrcLine("option", <<"A">>, <<"z">>, <<>>, <<>>)
LnExplF == SrcLine("explanation", <<>>, <<"f">>, <<>>, <<>>)
LnExcY == SrcLine("exception", <<>>, <<"y">>, <<>>, <<>>)

\* Records in which an option letter or a tag comes twice.
RepeatSources ==
    {<<LnQ1, LnOptA, LnOptB, LnOptAz, LnAnswer>>,
     <<LnQ1, LnAnswer, LnPlain, LnAnswerA>>,
     <<LnQ1, LnExpl, LnPlain, LnExplF, LnPlain>>,
     <<LnQ1, LnExc, LnPlain, LnExcY>>,
     <<LnQ1, LnOptA, LnExpl, LnPlain, LnExc, LnExplF, LnExcY, LnOptAz>>}

ParserSources ==
    GenericSources \cup ScenarioSources \cup WellFormedSources \cup ValidateSources
        \cup RepeatSources
ParserSubjects == {"Physics", "Math"}

\* ------------------------------------------------------------------------
\* Actions of QuestionParser.parse
\* ------------------------------------------------------------------------

\* parser.parse(text, subject) up to the head of its loop.
CallParse(src, subject) ==
    /\ parser.pc = "idle"
    /\ parser' = [ParserIdle EXCEPT !.pc = "loop", !.src = src, !.subject = subject,
                                   !.lines = Split(TextOf(src), "\n"), !.i = 1]
    /\ UNCHANGED <<launcherVars, fallbackVars, pageVars, appVars, instanceVars>>

\* One iteration of the loop.
ParseIteration ==
    /\ parser.pc = "loop"
    /\ parser.i <= Len(parser.lines)
    /\ LET st == ParseLine(parser.st, parser.lines[parser.i], parser.subject)
       IN  parser' = [parser EXCEPT !.st = st, !.hist = Append(@, st), !.i = @ + 1]
    /\ UNCHANGED <<launcherVars, fallbackVars, pageVars, appVars, instanceVars>>

\* The loop is over: the last flush and the return.
ParseReturns ==
    /\ parser.pc = "loop"
    /\ parser.i > Len(parser.lines)
    /\ parser' = [parser EXCEPT !.pc = "done", !.result = ParseFlush(parser.st)]
    /\ UNCHANGED <<launcherVars, fallbackVars, pageVars, appVars, instanceVars>>

\* parser.validate() of question-parser.js after a parse
CallValidate ==
    /\ parser.pc = "done"
    /\ parser' = [parser EXCEPT !.pc = "validated", !.variant = "question-parser.js",
                                !.errors = Validate(parser.result, 1)]
    /\ UNCHANGED <<launcherVars, fallbackVars, pageVars, appVars, instanceVars>>

\* parser.validate() of part_000 after a parse
CallValidateCompact ==
    /\ parser.pc = "done"
    /\ parser' = [parser EXCEPT !.pc = "validated", !.variant = "part_000",
                                !.errors = ValidateCompact(parser.result, 1)]
    /\ UNCHANGED <<launcherVars, fallbackVars, pageVars, appVars, instanceVars>>

ParserNext ==
    \/ /\ parser.pc = "idle"
       /\ \E src \in ParserSources, subject \in ParserSubjects : CallParse(src, subject)
    \/ ParseIteration
    \/ ParseReturns
    \/ CallValidate
    \/ CallValidateCompact

\* ------------------------------------------------------------------------
\* quiz-app.js: the data normaliser and bootQuiz's use of it
\* ------------------------------------------------------------------------

\* The truthiness of a string that may be undefined.
Truthy(m) == IsJust(m) /\ Val(m) # <<>>

\* a || b
Or(a, b) == IF Truthy(a) THEN a ELSE b

\* The truthiness of a subject name that may be undefined.
TruthyName(m) == IsJust(m) /\ Val(m) # ""

\* a || b on subject names
OrName(a, b) == IF TruthyName(a) THEN a ELSE b

\* q.options && q.options[key]
Nested(q, key) ==
    IF IsJust(q.options) /\ key \in DOMAIN Val(q.options)
    THEN Val(q.options)[key]
    ELSE Nothing

\* q['option' + key]
Flat(q, key) ==
    CASE key = "A" -> q.optionA
      [] key = "B" -> q.optionB
      [] key = "C" -> q.optionC
      [] key = "D" -> q.optionD

\* q.optionA || (q.options && q.options['A']) || ''
NormalizedOption(q, key) == Val(Or(Or(Flat(q, key), Nested(q, key)), Just(<<>>)))

\* q.subject || subject || 'General'
NormalizedSubject(q, subject) == Val(OrName(OrName(q.subject, subject), Just("General")))

NormalizeQuestions(rawQuestions, subject) ==
    [n \in 1..Len(rawQuestions) |->
        LET q == rawQuestions[n]
        IN  [id          |-> q.id,
             subject     |-> NormalizedSubject(q, subject),
             text        |-> q.text,
             options     |-> [key \in OptionLetters |-> NormalizedOption(q, key)],
             answer      |-> q.answer,
             explanation |-> OrEmpty(q.explanation),
             exception   |-> OrEmpty(q.exception)]]

\* (metadata && metadata.subject) ? metadata.subject : 'Practice Test'
BootSubject(metadata) ==
    IF IsJust(metadata) /\ TruthyName(Val(metadata).subject)
    THEN Val(Val(metadata).subject)
    ELSE "Practice Test"

\* No normalising call made yet.
NormIdle ==
    [pc |-> "idle", op |-> "", raw |-> <<>>, hint |-> Nothing, metadata |-> Nothing,
     result |-> <<>>]

\* ------------------------------------------------------------------------
\* quiz-app.js: QuizState and QuizUI
\* ------------------------------------------------------------------------

\* No answer recorded: userAnswers = {}
NoAnswers == [id \in {} |-> ""]

\* The page before bootQuiz: no QuizState, the panels as the template has them.
QuizNone ==
    [booted               |-> FALSE,
     questions            |-> <<>>,
     duration             |-> 0,
     timeRemaining        |-> 0,
     currentQuestionIndex |-> 0,
     userAnswers          |-> NoAnswers,
     flaggedQuestions     |-> {},
     timerInterval        |-> FALSE,
     isSubmitted          |-> FALSE,
     palette              |-> <<>>,
     options              |-> <<>>,
     selected             |-> {},
     explanationContent   |-> <<>>,
     explanationHidden    |-> TRUE,
     answeredCount        |-> 0,
     submitModalHidden    |-> TRUE,
     timeUpModalHidden    |-> TRUE,
     answeredByUser       |-> {},
     returned             |-> Nothing,
     timeUps              |-> 0]

\* QuizState.getCurrentQuestion
GetCurrentQuestion(q) == q.questions[q.currentQuestionIndex + 1]

\* QuizState.getAnswer: the stored option, or undefined
GetAnswer(q, questionId) ==
    IF questionId \in DOMAIN q.userAnswers THEN Just(q.userAnswers[questionId]) ELSE Nothing

\* QuizState.setAnswer
SetAnswer(q, questionId, option) ==
    [q EXCEPT !.userAnswers =
        [id \in (DOMAIN q.userAnswers) \cup {questionId} |->
            IF id = questionId THEN option ELSE q.userAnswers[id]]]

\* QuizState.clearAnswer
ClearAnswer(q, questionId) ==
    [q EXCEPT !.userAnswers =
        [id \in (DOMAIN q.userAnswers) \ {questionId} |-> q.userAnswers[id]]]

\* QuizState.toggleFlag
ToggleFlag(q, questionId) ==
    [q EXCEPT !.flaggedQuestions =
        IF questionId \in @ THEN @ \ {questionId} ELSE @ \cup {questionId}]

\* QuizState.getAnsweredCount
GetAnsweredCount(q) == Cardinality(DOMAIN q.userAnswers)

\* QuizState.getScore: the number of questions whose stored answer is theirs
GetScore(q) ==
    Cardinality({n \in 1..Len(q.questions) :
        /\ q.questions[n].id \in DOMAIN q.userAnswers
        /\ Just(<<q.userAnswers[q.questions[n].id]>>) = q.questions[n].answer})

\* QuizUI.renderQuestionPalette: the classes of each palette button
RenderQuestionPalette(q) ==
    [q EXCEPT !.palette =
        [n \in 1..Len(q.questions) |->
            (IF n - 1 = q.currentQuestionIndex THEN {"current"}
             ELSE IF IsJust(GetAnswer(q, q.questions[n].id)) THEN {"answered"}
             ELSE {})
            \cup (IF q.questions[n].id \in q.flaggedQuestions THEN {"flagged"} ELSE {})]]

\* QuizUI.renderExplanation
RenderExplanation(q, question) ==
    LET hasAnswer      == IsJust(GetAnswer(q, question.id))
        hasExplanation == question.explanation # <<>> \/ question.exception # <<>>
    IN  IF hasAnswer /\ hasExplanation
        THEN [q EXCEPT !.explanationContent =
                           IF question.explanation # <<>> THEN question.explanation
                           ELSE question.exception,
                       !.explanationHidden = FALSE]
        ELSE [q EXCEPT !.explanationHidden = TRUE]

\* QuizUI.renderQuestion: the options built, the selected one, the explanation
RenderQuestion(q) ==
    LET question == GetCurrentQuestion(q)
        shown    == SelectSeq(<<"A", "B", "C", "D">>,
                              LAMBDA label : question.options[label] # <<>>)
    IN  RenderExplanation(
            [q EXCEPT !.options  = shown,
                      !.selected = {label \in Range(shown) :
                                       GetAnswer(q, question.id) = Just(label)}],
            question)

\* QuizUI.renderStats
RenderStats(q) == [q EXCEPT !.answeredCount = GetAnsweredCount(q)]

\* QuizUI.render
RenderAll(q) == RenderStats(RenderQuestion(RenderQuestionPalette(q)))

\* QuizUI.handleSelectOption
HandleSelectOption(q, option) ==
    RenderAll(SetAnswer(q, GetCurrentQuestion(q).id, option))

\* QuizUI.handleClearAnswer
HandleClearAnswer(q) == RenderAll(ClearAnswer(q, GetCurrentQuestion(q).id))

\* QuizUI.handleToggleFlag
HandleToggleFlag(q) == RenderAll(ToggleFlag(q, GetCurrentQuestion(q).id))

\* QuizState.goToQuestion, with no check of the index
GoToQuestionUnchecked(q, index) ==
    [q EXCEPT !.currentQuestionIndex = index, !.returned = Just(TRUE)]

\* QuizState.goToQuestion called on its own: the index and the value returned
GoToQuestion(q, index) ==
    IF index >= 0 /\ index < Len(q.questions)
    THEN [q EXCEPT !.currentQuestionIndex = index, !.returned = Just(TRUE)]
    ELSE [q EXCEPT !.returned = Just(FALSE)]

\* QuizState.nextQuestion called on its own
NextQuestion(q) ==
    IF q.currentQuestionIndex < Len(q.questions) - 1
    THEN [q EXCEPT !.currentQuestionIndex = @ + 1, !.returned = Just(TRUE)]
    ELSE [q EXCEPT !.returned = Just(FALSE)]

\* QuizState.prevQuestion called on its own
PrevQuestion(q) ==
    IF q.currentQuestionIndex > 0
    THEN [q EXCEPT !.currentQuestionIndex = @ - 1, !.returned = Just(TRUE)]
    ELSE [q EXCEPT !.returned = Just(FALSE)]

\* QuizUI.handlePrevious with QuizState.prevQuestion
HandlePrevious(q) ==
    IF q.currentQuestionIndex > 0
    THEN RenderAll([q EXCEPT !.currentQuestionIndex = @ - 1])
    ELSE q

\* QuizUI.showSubmitModal and hideSubmitModal
ShowSubmitModal(q) == [q EXCEPT !.submitModalHidden = FALSE]
HideSubmitModal(q) == [q EXCEPT !.submitModalHidden = TRUE]

\* QuizUI.handleNext with QuizState.nextQuestion
HandleNext(q) ==
    IF q.currentQuestionIndex = Len(q.questions) - 1 THEN ShowSubmitModal(q)
    ELSE RenderAll([q EXCEPT !.currentQuestionIndex = @ + 1])

\* The click listener of the palette button of the given index:
\* QuizState.goToQuestion, then render
HandlePalette(q, index) ==
    RenderAll(IF index >= 0 /\ index < Len(q.questions)
              THEN [q EXCEPT !.currentQuestionIndex = index]
              ELSE q)

\* QuizUI.handleSubmit without its call of stopTimer
HandleSubmitRunning(q) ==
    HideSubmitModal([q EXCEPT !.isSubmitted = TRUE])

\* QuizUI.handleSubmit
HandleSubmit(q) ==
    HideSubmitModal([q EXCEPT !.isSubmitted = TRUE, !.timerInterval = FALSE])

\* QuizUI.handleTimeUp; timeUps counts its calls
HandleTimeUp(q) ==
    [q EXCEPT !.isSubmitted = TRUE, !.timeUpModalHidden = FALSE, !.timeUps = @ + 1]

\* The callback QuizState.startTimer gives to setInterval
TimerCallback(q) ==
    LET r == [q EXCEPT !.timeRemaining = @ - 1]
    IN  IF r.timeRemaining <= 0
        THEN HandleTimeUp([r EXCEPT !.timerInterval = FALSE])
        ELSE r

\* QuizUI.handleKeyboard for a key pressed outside an input
HandleKeyboard(q, key) ==
    CASE key = "ArrowLeft"  -> HandlePrevious(q)
      [] key = "ArrowRight" -> HandleNext(q)
      [] key \in {"a", "A"} -> HandleSelectOption(q, "A")
      [] key \in {"b", "B"} -> HandleSelectOption(q, "B")
      [] key \in {"c", "C"} -> HandleSelectOption(q, "C")
      [] key \in {"d", "D"} -> HandleSelectOption(q, "D")
      [] key \in {"f", "F"} -> HandleToggleFlag(q)
      [] key = "Escape"     -> HideSubmitModal(q)
      [] OTHER              -> q

\* The duration bootQuiz falls back to.
DefaultDuration == 900

\* timerMinutes as a fraction of a minute
Minutes(num, den) == [num |-> num, den |-> den]

\* (metadata && metadata.timerMinutes) ? metadata.timerMinutes * 60 : 900
DurationSeconds(metadata) ==
    IF IsJust(metadata) /\ IsJust(Val(metadata).timerMinutes)
       /\ Val(Val(metadata).timerMinutes).num # 0
    THEN (Val(Val(metadata).timerMinutes).num * 60) \div Val(Val(metadata).timerMinutes).den
    ELSE DefaultDuration

\* new QuizState(questions, duration), then new QuizUI(quizState): the first
\* render and the timer started
NewQuiz(questions, durationSeconds) ==
    RenderAll([QuizNone EXCEPT !.booted = TRUE,
                               !.questions = questions,
                               !.duration = durationSeconds,
                               !.timeRemaining = durationSeconds,
                               !.timerInterval = TRUE])

\* The raw records the normalising functions are called with: flat fields,
\* a nested options map, or both.
RawRecord(id, subject, optionA, options) ==
    [id |-> id, subject |-> subject, text |-> Just(<<"Q">>),
     optionA |-> optionA, optionB |-> Just(<<"b">>),
     optionC |-> Nothing, optionD |-> Just(<<>>),
     options |-> options,
     answer |-> Just(<<"A">>), explanation |-> Nothing, exception |-> Just(<<"x">>)]

RawSubjects == {Nothing, Just(""), Just("Chemistry")}
RawFlats == {Nothing, Just(<<>>), Just(<<"x">>)}
RawOptionMaps ==
    {Nothing,
     Just(NoOptions),
     Just([key \in {"A"} |-> Just(<<>>)]),
     Just([key \in {"A", "C", "D"} |-> Just(<<"y">>)])}

RawRecords ==
    {RawRecord(1, subject, optionA, options) :
        subject \in RawSubjects, optionA \in RawFlats, options \in RawOptionMaps}

RawLists ==
    {<<>>} \cup {<<q>> : q \in RawRecords}
           \cup {<<RawRecord(1, Just("Chemistry"), Just(<<"x">>), Nothing),
                   RawRecord(2, Nothing, Nothing, Just([key \in {"A"} |-> Just(<<"y">>)]))>>}

HintInputs == {Nothing, Just(""), Just("Physics")}

MetadataInputs ==
    QuizMetadataInputs \cup {Just([subject |-> Nothing, timerMinutes |-> Nothing])}

\* normalizeQuestions(rawQuestions, subject)
CallNormalizeQuestions(raw, hint) ==
    /\ norm.pc = "idle"
    /\ norm' = [pc |-> "done", op |-> "normalizeQuestions", raw |-> raw, hint |-> hint,
                metadata |-> Nothing, result |-> NormalizeQuestions(raw, hint)]
    /\ UNCHANGED <<launcherVars, fallbackVars, parserVars, quiz, appVars, instanceVars>>

\* new QuizLauncher().convertEmbeddedData(rawData) on a page whose
\* window.quizMetadata is metadata
CallConvertEmbeddedData(raw, metadata) ==
    /\ norm.pc = "idle"
    /\ norm' = [pc |-> "done", op |-> "convertEmbeddedData", raw |-> raw, hint |-> Nothing,
                metadata |-> metadata, result |-> ConvertEmbeddedData(raw, metadata)]
    /\ UNCHANGED <<launcherVars, fallbackVars, parserVars, quiz, appVars, instanceVars>>

\* A raw record in the flat form, options A and B filled.
BootRecord(id, subject, answer, explanation, exception) ==
    [id |-> id, subject |-> subject, text |-> Just(<<"Q">>),
     optionA |-> Just(<<"a">>), optionB |-> Just(<<"b">>),
     optionC |-> Nothing, optionD |-> Nothing,
     options |-> Nothing,
     answer |-> Just(<<answer>>), explanation |-> explanation, exception |-> exception]

\* The questions of two subjects put one after the other, each subject
\* numbered from 1: an explanation, neither text, an exception alone.
QuizCluster ==
    <<BootRecord(1, Just("Physics"), "A", Just(<<"e">>), Nothing),
      BootRecord(1, Just("Chemistry"), "B", Nothing, Nothing),
      BootRecord(2, Just("Chemistry"), "A", Nothing, Just(<<"x">>))>>

\* One subject, numbered 1 and 2.
QuizSubject ==
    <<BootRecord(1, Nothing, "A", Just(<<"e">>), Nothing),
      BootRecord(2, Nothing, "B", Nothing, Nothing)>>

QuizLists == {<<>>, QuizSubject, QuizCluster}

\* The metadata of a page with a three second quiz.
ShortQuiz == Just([subject |-> Just("Biology"), timerMinutes |-> Just(Minutes(1, 20))])

BootMetadataInputs ==
    {Nothing, Just([subject |-> Nothing, timerMinutes |-> Nothing]), ShortQuiz}

KeyInputs == {"ArrowLeft", "ArrowRight", "a", "B", "c", "D", "f", "Escape", "x"}

\* The timer callbacks followed from the start of a quiz.
MaxSeconds == 3

\* History: the questions, by their place in the list, that the user gave an
\* answer to while they were the current question and has not cleared since.
NowAnswered(new) ==
    [new EXCEPT !.answeredByUser = @ \cup {quiz.currentQuestionIndex + 1}]
NowCleared(new) ==
    [new EXCEPT !.answeredByUser = @ \ {quiz.currentQuestionIndex + 1}]

\* bootQuiz(rawQuestions, metadata)
CallBootQuiz(raw, metadata) ==
    /\ ~quiz.booted
    /\ norm.pc = "idle"
    /\ LET questions == NormalizeQuestions(raw, Just(BootSubject(metadata)))
       IN  /\ norm' = [pc |-> "done", op |-> "bootQuiz", raw |-> raw, hint |-> Nothing,
                       metadata |-> metadata,
                       result |-> IF raw = <<>> THEN <<>> ELSE questions]
           /\ quiz' = IF raw = <<>> THEN quiz
                      ELSE NewQuiz(questions, DurationSeconds(metadata))
    /\ UNCHANGED <<launcherVars, fallbackVars, parserVars, appVars, instanceVars>>

\* A click on one of the options shown
ClickOption(label) ==
    /\ quiz.booted
    /\ label \in Range(quiz.options)
    /\ quiz' = NowAnswered(HandleSelectOption(quiz, label))
    /\ UNCHANGED <<launcherVars, fallbackVars, parserVars, norm, appVars, instanceVars>>

\* A key pressed anywhere on the page but in an input
KeyDown(key) ==
    /\ quiz.booted
    /\ quiz' = IF key \in {"a", "A", "b", "B", "c", "C", "d", "D"}
               THEN NowAnswered(HandleKeyboard(quiz, key))
               ELSE HandleKeyboard(quiz, key)
    /\ UNCHANGED <<launcherVars, fallbackVars, parserVars, norm, appVars, instanceVars>>

\* A click on clearBtn
ClickClear ==
    /\ quiz.booted
    /\ quiz' = NowCleared(HandleClearAnswer(quiz))
    /\ UNCHANGED <<launcherVars, fallbackVars, parserVars, norm, appVars, instanceVars>>

\* A click on flagBtn
ClickFlag ==
    /\ quiz.booted
    /\ quiz' = HandleToggleFlag(quiz)
    /\ UNCHANGED <<launcherVars, fallbackVars, parserVars, norm, appVars, instanceVars>>

\* A click on prevBtn, which renderQuestion disables on the first question
ClickPrev ==
    /\ quiz.booted
    /\ quiz.currentQuestionIndex # 0
    /\ quiz' = HandlePrevious(quiz)
    /\ UNCHANGED <<launcherVars, fallbackVars, parserVars, norm, appVars, instanceVars>>

\* A click on nextBtn
ClickNext ==
    /\ quiz.booted
    /\ quiz' = HandleNext(quiz)
    /\ UNCHANGED <<launcherVars, fallbackVars, parserVars, norm, appVars, instanceVars>>

\* A click on the palette button of a question
ClickPalette(index) ==
    /\ quiz.booted
    /\ index \in 0..(Len(quiz.questions) - 1)
    /\ quiz' = HandlePalette(quiz, index)
    /\ UNCHANGED <<launcherVars, fallbackVars, parserVars, norm, appVars, instanceVars>>

\* A click on submitBtn
ClickSubmit ==
    /\ quiz.booted
    /\ quiz' = ShowSubmitModal(quiz)
    /\ UNCHANGED <<launcherVars, fallbackVars, parserVars, norm, appVars, instanceVars>>

\* A click on closeSubmitModal or cancelSubmitBtn, in the modal shown
ClickCancelSubmit ==
    /\ quiz.booted
    /\ ~quiz.submitModalHidden
    /\ quiz' = HideSubmitModal(quiz)
    /\ UNCHANGED <<launcherVars, fallbackVars, parserVars, norm, appVars, instanceVars>>

\* A click on confirmSubmitBtn, in the modal shown
ClickConfirmSubmit ==
    /\ quiz.booted
    /\ ~quiz.submitModalHidden
    /\ quiz' = HandleSubmit(quiz)
    /\ UNCHANGED <<launcherVars, fallbackVars, parserVars, norm, appVars, instanceVars>>

\* The interval of QuizState.startTimer fires
TimerFires ==
    /\ quiz.booted
    /\ quiz.timerInterval
    /\ quiz.duration - quiz.timeRemaining < MaxSeconds
    /\ quiz' = TimerCallback(quiz)
    /\ UNCHANGED <<launcherVars, fallbackVars, parserVars, norm, appVars, instanceVars>>

\* A one-question quiz.
QuizSingle == <<BootRecord(1, Nothing, "A", Just(<<"e">>), Nothing)>>

NavLists == {QuizSingle, QuizSubject, QuizCluster}

\* The indexes goToQuestion is called with: below, inside and past the list.
IndexInputs == -1..3

\* state.goToQuestion(index) called on the QuizState of the page
CallGoToQuestion(index) ==
    /\ quiz.booted
    /\ quiz' = GoToQuestion(quiz, index)
    /\ UNCHANGED <<launcherVars, fallbackVars, parserVars, norm, appVars, instanceVars>>

\* state.nextQuestion() called on the QuizState of the page
CallNextQuestion ==
    /\ quiz.booted
    /\ quiz' = NextQuestion(quiz)
    /\ UNCHANGED <<launcherVars, fallbackVars, parserVars, norm, appVars, instanceVars>>

\* state.prevQuestion() called on the QuizState of the page
CallPrevQuestion ==
    /\ quiz.booted
    /\ quiz' = PrevQuestion(quiz)
    /\ UNCHANGED <<launcherVars, fallbackVars, parserVars, norm, appVars, instanceVars>>

NavigationNext ==
    \/ /\ ~quiz.booted
       /\ \E raw \in NavLists, metadata \in {Nothing, ShortQuiz} : CallBootQuiz(raw, metadata)
    \/ \E index \in IndexInputs : CallGoToQuestion(index)
    \/ CallNextQuestion
    \/ CallPrevQuestion
    \/ \E key \in {"ArrowLeft", "ArrowRight"} : KeyDown(key)
    \/ ClickPrev
    \/ ClickNext
    \/ \E index \in 0..2 : ClickPalette(index)
    \/ ClickCancelSubmit

QuizNext ==
    \/ /\ ~quiz.booted
       /\ \E raw \in QuizLists, metadata \in {Nothing, ShortQuiz} : CallBootQuiz(raw, metadata)
    \/ \E label \in OptionLetters : ClickOption(label)
    \/ \E key \in KeyInputs : KeyDown(key)
    \/ ClickClear
    \/ ClickFlag
    \/ ClickPrev
    \/ ClickNext
    \/ \E index \in 0..2 : ClickPalette(index)
    \/ ClickSubmit
    \/ ClickCancelSubmit
    \/ ClickConfirmSubmit
    \/ TimerFires

NormalizerNext ==
    \/ \E raw \in RawLists, hint \in HintInputs : CallNormalizeQuestions(raw, hint)
    \/ \E raw \in RawLists, metadata \in MetadataInputs : CallConvertEmbeddedData(raw, metadata)
    \/ \E raw \in RawLists, metadata \in BootMetadataInputs : CallBootQuiz(raw, metadata)

\* ------------------------------------------------------------------------
\* GrantApp: the loading overlay of the landing pages (app.js, part_001)
\* ------------------------------------------------------------------------

\* The two scripts that define GrantApp's loading system.
AppVariants == {"app.js", "part_001"}

\* A pending setTimeout callback: hideLoading, or the assignment of href.
HideTimer == [run |-> "hideLoading", href |-> <<>>]

NavigateTimer(href) == [run |-> "navigate", href |-> href]

\* No tab yet: localStorage is empty and no document is loaded.
AppClosed ==
    [variant |-> "", page |-> "closed", overlay |-> FALSE,
     overlayActive |-> FALSE, grantappLoading |-> FALSE,
     selectedStream |-> "", selectedCluster |-> "",
     pageshowListener |-> FALSE, timers |-> {}, error |-> "", initialized |-> FALSE,
     timer |-> "none", timeLeft |-> 15 * 60, timerInterval |-> Nothing,
     live |-> {}, nextId |-> 1, submits |-> 0, expiries |-> 0,
     isDragging |-> FALSE, dragOffset |-> [x |-> 0, y |-> 0],
     timerPosition |-> [x |-> 20, y |-> 100], savedPosition |-> Nothing,
     listeners |-> {}, nextFn |-> 1,
     boundDrag |-> Nothing, boundTouchDrag |-> Nothing, boundStop |-> Nothing]

\* app.js showLoading: class and flag are set only when the overlay exists.
ShowLoadingGuarded(a) ==
    IF a.overlay
    THEN [a EXCEPT !.overlayActive = TRUE, !.grantappLoading = TRUE]
    ELSE a

\* app.js hideLoading: class and flag are removed only when the overlay exists.
HideLoadingGuarded(a) ==
    IF a.overlay
    THEN [a EXCEPT !.overlayActive = FALSE, !.grantappLoading = FALSE]
    ELSE a

\* part_001 showLoading: the flag is set whether or not the overlay exists.
ShowLoadingAlways(a) ==
    [a EXCEPT !.overlayActive = a.overlay, !.grantappLoading = TRUE]

\* part_001 hideLoading: the flag is removed whether or not the overlay exists.
HideLoadingAlways(a) ==
    [a EXCEPT !.overlayActive = FALSE, !.grantappLoading = FALSE]

ShowLoading(a) ==
    IF a.variant = "app.js" THEN ShowLoadingGuarded(a) ELSE ShowLoadingAlways(a)

HideLoading(a) ==
    IF a.variant = "app.js" THEN HideLoadingGuarded(a) ELSE HideLoadingAlways(a)

\* app.js checkBackNavigation: a stale flag schedules hideLoading; nothing
\* listens for pageshow.
CheckBackNavigationTimer(a) ==
    IF a.grantappLoading
    THEN [a EXCEPT !.timers = @ \cup {HideTimer}]
    ELSE a

\* part_001 checkBackNavigation: hideLoading at once, and a pageshow listener.
CheckBackNavigationListener(a) ==
    [HideLoadingAlways(a) EXCEPT !.pageshowListener = TRUE]

CheckBackNavigation(a) ==
    IF a.variant = "app.js"
    THEN CheckBackNavigationTimer(a)
    ELSE CheckBackNavigationListener(a)

\* part_001 getQuizUrl: the quiz page of a cluster code, or null.
GetQuizUrl(cluster) ==
    CASE cluster = "mepc" -> Just(<<"quiz.html?stream=science&cluster=0">>)
      [] cluster = "physics" -> Just(<<"quiz-physics.html">>)
      [] OTHER -> Nothing

\* The address selectStream navigates to.
StreamHref(stream) == <<IF stream = "art" THEN "art" ELSE stream, "_clusters.html">>

\* The address app.js selectCluster navigates to.
PracticeHref(cluster) == <<"practice_", cluster, ".html">>

\* What the page has of the timer: nothing, the draggable widget of a landing
\* page, or the fixed timer of a quiz page (.timer-container.quiz).
TimerPages == {"none", "landing", "quiz"}

\* The size of the window the page is shown in.
Window == [innerWidth |-> 1024, innerHeight |-> 768]

\* submitTest: the error modal with its message; submits counts the calls.
SubmitTest(a) ==
    [a EXCEPT !.error = "Time is up! Your test has been submitted.",
              !.submits = @ + 1]

\* clearInterval(this.timerInterval): the interval of that id, if it is live.
ClearTimerInterval(a) ==
    [a EXCEPT !.live = IF IsJust(a.timerInterval) THEN @ \ {Val(a.timerInterval)} ELSE @]

\* updateTimer, the closure of startCountdown.  expiries counts the times
\* timeLeft came to zero.
UpdateTimer(a) ==
    IF a.timeLeft <= 0
    THEN LET cleared == ClearTimerInterval(a)
         IN  IF a.timer = "quiz" THEN SubmitTest(cleared) ELSE cleared
    ELSE [a EXCEPT !.timeLeft = @ - 1,
                   !.expiries = IF a.timeLeft = 1 THEN @ + 1 ELSE @]

\* startCountdown: nothing without a display; else one call of updateTimer at
\* once and a new interval, whose id goes to timerInterval.
StartCountdown(a) ==
    IF a.timer = "none" THEN a
    ELSE LET u == UpdateTimer(a)
         IN  [u EXCEPT !.timerInterval = Just(u.nextId),
                       !.live = @ \cup {u.nextId},
                       !.nextId = @ + 1]

Smaller(m, n) == IF m < n THEN m ELSE n
Larger(m, n) == IF m > n THEN m ELSE n

\* initTimer: on a landing page the widget is put at the saved position, kept
\* on screen, or at the default one; then the countdown starts.
InitTimer(a) ==
    IF a.timer = "none" THEN a
    ELSE IF a.timer = "quiz" THEN StartCountdown(a)
    ELSE StartCountdown(
             [a EXCEPT !.timerPosition =
                 IF IsJust(a.savedPosition)
                 THEN [x |-> Smaller(Larger(0, Val(a.savedPosition).x), Window.innerWidth - 200),
                       y |-> Smaller(Larger(60, Val(a.savedPosition).y), Window.innerHeight - 200)]
                 ELSE [x |-> Window.innerWidth - 220, y |-> Window.innerHeight - 180]])

\* resetTimer without its clearInterval.
ResetTimerOver(a, minutes) ==
    StartCountdown([a EXCEPT !.timeLeft = minutes * 60,
                             !.expiries = IF minutes * 60 = 0 THEN @ + 1 ELSE @])

\* resetTimer(minutes)
ResetTimer(a, minutes) ==
    LET cleared == IF IsJust(a.timerInterval) THEN ClearTimerInterval(a) ELSE a
    IN  StartCountdown([cleared EXCEPT !.timeLeft = minutes * 60,
                                       !.expiries = IF minutes * 60 = 0 THEN @ + 1 ELSE @])

\* pauseTimer
PauseTimer(a) ==
    IF IsJust(a.timerInterval)
    THEN [ClearTimerInterval(a) EXCEPT !.timerInterval = Nothing]
    ELSE a

\* resumeTimer
ResumeTimer(a) ==
    IF ~IsJust(a.timerInterval) /\ a.timeLeft > 0 THEN StartCountdown(a) ELSE a

\* One second passes: every interval that is live when its turn comes calls
\* updateTimer once, the oldest first.
RECURSIVE FireIntervals(_, _)
FireIntervals(a, ids) ==
    IF ids = {} THEN a
    ELSE LET id == SetMin(ids)
         IN  FireIntervals(IF id \in a.live THEN UpdateTimer(a) ELSE a, ids \ {id})

\* A point of the page.
Point(x, y) == [x |-> x, y |-> y]

\* A function made by bind, listening on the document for an event.
Listener(type, fn) == [type |-> type, fn |-> fn]

\* The mousedown listener of the widget.  Both scripts add a bound handleDrag
\* and a bound stopDrag to the document; part_001 keeps the two functions.
WidgetMouseDown(a, e) ==
    LET move == a.nextFn
        stop == a.nextFn + 1
        held == [a EXCEPT !.isDragging = TRUE,
                          !.dragOffset = Point(e.x - a.timerPosition.x, e.y - a.timerPosition.y),
                          !.listeners = @ \cup {Listener("mousemove", move),
                                                Listener("mouseup", stop)},
                          !.nextFn = @ + 2]
    IN  IF a.variant = "app.js" THEN held
        ELSE [held EXCEPT !.boundDrag = Just(move), !.boundStop = Just(stop)]

\* The touchstart listener of the widget.
WidgetTouchStart(a, e) ==
    LET move == a.nextFn
        stop == a.nextFn + 1
        held == [a EXCEPT !.isDragging = TRUE,
                          !.dragOffset = Point(e.x - a.timerPosition.x, e.y - a.timerPosition.y),
                          !.listeners = @ \cup {Listener("touchmove", move),
                                                Listener("touchend", stop)},
                          !.nextFn = @ + 2]
    IN  IF a.variant = "app.js" THEN held
        ELSE [held EXCEPT !.boundTouchDrag = Just(move), !.boundStop = Just(stop)]

\* handleDrag and handleTouchDrag
HandleDrag(a, e) ==
    IF ~a.isDragging THEN a
    ELSE [a EXCEPT !.timerPosition = Point(e.x - a.dragOffset.x, e.y - a.dragOffset.y)]

\* removeEventListener(type, fn) on the document, fn a function or nothing
RemoveListener(listeners, type, fn) ==
    IF IsJust(fn) THEN listeners \ {Listener(type, Val(fn))} ELSE listeners

\* stopDrag of app.js: each removeEventListener is given a function bind has
\* just made, which is none of those listening.
StopDragRebinding(a) ==
    LET made == Just(a.nextFn)
    IN  [a EXCEPT !.isDragging = FALSE,
                  !.savedPosition = Just(a.timerPosition),
                  !.listeners =
                      RemoveListener(RemoveListener(RemoveListener(RemoveListener(@,
                          "mousemove", made), "mouseup", made), "touchmove", made),
                          "touchend", made)]

\* stopDrag of part_001: the functions it kept are removed.
StopDragKept(a) ==
    [a EXCEPT !.isDragging = FALSE,
              !.savedPosition = Just(a.timerPosition),
              !.listeners =
                  RemoveListener(RemoveListener(RemoveListener(RemoveListener(@,
                      "mousemove", a.boundDrag), "touchmove", a.boundTouchDrag),
                      "mouseup", a.boundStop), "touchend", a.boundStop)]

StopDrag(a) ==
    IF a.variant = "app.js" THEN StopDragRebinding(a) ELSE StopDragKept(a)

\* The document has a listener for the event.
Listens(a, type) == \E l \in a.listeners : l.type = type

\* app.init() on a newly parsed document: initTimer, then checkBackNavigation.
AppInit(a) ==
    [CheckBackNavigation(InitTimer(a)) EXCEPT !.initialized = TRUE]

\* selectStream of either script.
AppSelectStream(a, stream) ==
    IF stream = ""
    THEN [a EXCEPT !.error = "Please select a valid stream"]
    ELSE LET shown == ShowLoading(a)
             saved == IF a.variant = "app.js"
                      THEN [shown EXCEPT !.selectedStream = stream]
                      ELSE shown
         IN  [saved EXCEPT !.timers = @ \cup {NavigateTimer(StreamHref(stream))}]

\* selectCluster of app.js.
AppSelectClusterPractice(a, cluster) ==
    IF cluster = ""
    THEN [a EXCEPT !.error = "Please select a valid cluster"]
    ELSE [ShowLoadingGuarded(a) EXCEPT
              !.selectedCluster = cluster,
              !.timers = @ \cup {NavigateTimer(PracticeHref(cluster))}]

\* selectCluster of part_001.
AppSelectClusterQuiz(a, cluster) ==
    IF cluster = ""
    THEN [a EXCEPT !.error = "Please select a valid cluster"]
    ELSE IF ~IsJust(GetQuizUrl(cluster))
         THEN [a EXCEPT !.error = "Quiz not found for cluster"]
         ELSE [ShowLoadingAlways(a) EXCEPT
                   !.timers = @ \cup {NavigateTimer(Val(GetQuizUrl(cluster)))}]

AppSelectCluster(a, cluster) ==
    IF a.variant = "app.js"
    THEN AppSelectClusterPractice(a, cluster)
    ELSE AppSelectClusterQuiz(a, cluster)

StreamCards == {"", "science", "art"}

ClusterCards == {"", "mepc", "physics", "zzzz"}

\* The document is parsed anew (first visit, reload, or a return the browser
\* serves without its back/forward cache): a new DOM, a new GrantApp, init().
\* localStorage is what earlier documents left; the page's script and markup
\* are those of its first load.
DOMContentLoaded(variant, overlay, timer) ==
    /\ app.page \in {"closed", "shown", "discarded"}
    /\ app.page # "closed" =>
          (variant = app.variant /\ overlay = app.overlay /\ timer = app.timer)
    /\ app' = AppInit([AppClosed EXCEPT !.variant = variant, !.page = "shown",
                                        !.overlay = overlay, !.timer = timer,
                                        !.grantappLoading = app.grantappLoading,
                                        !.selectedStream = app.selectedStream,
                                        !.selectedCluster = app.selectedCluster,
                                        !.savedPosition = app.savedPosition])
    /\ UNCHANGED <<launcherVars, fallbackVars, parserVars, pageVars, instanceVars>>

\* A stream card is clicked.
SelectStream(stream) ==
    /\ app.page = "shown"
    /\ app' = AppSelectStream(app, stream)
    /\ UNCHANGED <<launcherVars, fallbackVars, parserVars, pageVars, instanceVars>>

\* A cluster card is clicked.
SelectCluster(cluster) ==
    /\ app.page = "shown"
    /\ app' = AppSelectCluster(app, cluster)
    /\ UNCHANGED <<launcherVars, fallbackVars, parserVars, pageVars, instanceVars>>

\* The timer of checkBackNavigation fires.
HideTimerFires ==
    /\ app.page = "shown"
    /\ HideTimer \in app.timers
    /\ app' = [HideLoading(app) EXCEPT !.timers = @ \ {HideTimer}]
    /\ UNCHANGED <<launcherVars, fallbackVars, parserVars, pageVars, instanceVars>>

\* A navigation timer fires: href is assigned and the document is left, either
\* kept whole in the back/forward cache or discarded.
NavigateTimerFires(kept) ==
    /\ app.page = "shown"
    /\ \E t \in app.timers :
          /\ t.run = "navigate"
          /\ app' = [app EXCEPT !.timers = @ \ {t},
                                !.page = IF kept THEN "cached" ELSE "discarded"]
    /\ UNCHANGED <<launcherVars, fallbackVars, parserVars, pageVars, instanceVars>>

\* While the document is left, the page navigated to runs its own hideLoading
\* and removes the flag from the shared localStorage.
DestinationHidesLoading ==
    /\ app.page \in {"cached", "discarded"}
    /\ app.grantappLoading
    /\ app' = [app EXCEPT !.grantappLoading = FALSE]
    /\ UNCHANGED <<launcherVars, fallbackVars, parserVars, pageVars, instanceVars>>

\* Back: the document comes out of the back/forward cache as it was left;
\* pageshow fires with persisted = true and DOMContentLoaded does not fire.
PageShowPersisted ==
    /\ app.page = "cached"
    /\ app' = IF app.pageshowListener
              THEN [HideLoading(app) EXCEPT !.page = "shown"]
              ELSE [app EXCEPT !.page = "shown"]
    /\ UNCHANGED <<launcherVars, fallbackVars, parserVars, pageVars, instanceVars>>

\* The pages a countdown is followed on.
CountdownPages == {"landing", "quiz"}

\* The intervals followed on one document.
MaxIntervals == 3

\* The minutes resetTimer is called with.
ResetMinutes == {0, 1, 15}

\* One second passes on a page that is shown.
SecondElapses ==
    /\ app.page = "shown"
    /\ app.live # {}
    /\ app' = FireIntervals(app, app.live)
    /\ UNCHANGED <<launcherVars, fallbackVars, parserVars, pageVars, instanceVars>>

\* app.resetTimer(minutes)
CallResetTimer(minutes) ==
    /\ app.page = "shown"
    /\ app.nextId <= MaxIntervals
    /\ app' = ResetTimer(app, minutes)
    /\ UNCHANGED <<launcherVars, fallbackVars, parserVars, pageVars, instanceVars>>

\* app.pauseTimer(), which app.js has
CallPauseTimer ==
    /\ app.page = "shown"
    /\ app.variant = "app.js"
    /\ app' = PauseTimer(app)
    /\ UNCHANGED <<launcherVars, fallbackVars, parserVars, pageVars, instanceVars>>

\* app.resumeTimer(), which app.js has
CallResumeTimer ==
    /\ app.page = "shown"
    /\ app.variant = "app.js"
    /\ app.nextId <= MaxIntervals
    /\ app' = ResumeTimer(app)
    /\ UNCHANGED <<launcherVars, fallbackVars, parserVars, pageVars, instanceVars>>

TimerNext ==
    \/ /\ app.page = "closed"
       /\ \E variant \in AppVariants, timer \in CountdownPages :
             DOMContentLoaded(variant, TRUE, timer)
    \/ SecondElapses
    \/ \E minutes \in ResetMinutes : CallResetTimer(minutes)
    \/ CallPauseTimer
    \/ CallResumeTimer

\* Where the pointer is when an event of it is dispatched.
PointerInputs == {Point(810, 600), Point(400, 300)}

\* The drags followed on one document.
MaxDrags == 2

\* mousedown on the widget of a landing page
MouseDown(e) ==
    /\ app.page = "shown"
    /\ app.timer = "landing"
    /\ app.nextFn <= 2 * MaxDrags
    /\ app' = WidgetMouseDown(app, e)
    /\ UNCHANGED <<launcherVars, fallbackVars, parserVars, pageVars, instanceVars>>

\* touchstart on the widget of a landing page
TouchStart(e) ==
    /\ app.page = "shown"
    /\ app.timer = "landing"
    /\ app.nextFn <= 2 * MaxDrags
    /\ app' = WidgetTouchStart(app, e)
    /\ UNCHANGED <<launcherVars, fallbackVars, parserVars, pageVars, instanceVars>>

\* mousemove on the document: its listeners, all bound handleDrag
MouseMove(e) ==
    /\ app.page = "shown"
    /\ app' = IF Listens(app, "mousemove") THEN HandleDrag(app, e) ELSE app
    /\ UNCHANGED <<launcherVars, fallbackVars, parserVars, pageVars, instanceVars>>

\* touchmove on the document: its listeners, all bound handleTouchDrag
TouchMove(e) ==
    /\ app.page = "shown"
    /\ app' = IF Listens(app, "touchmove") THEN HandleDrag(app, e) ELSE app
    /\ UNCHANGED <<launcherVars, fallbackVars, parserVars, pageVars, instanceVars>>

\* mouseup on the document: its listeners, all bound stopDrag
MouseUp ==
    /\ app.page = "shown"
    /\ app' = IF Listens(app, "mouseup") THEN StopDrag(app) ELSE app
    /\ UNCHANGED <<launcherVars, fallbackVars, parserVars, pageVars, instanceVars>>

\* touchend on the document: its listeners, all bound stopDrag
TouchEnd ==
    /\ app.page = "shown"
    /\ app' = IF Listens(app, "touchend") THEN StopDrag(app) ELSE app
    /\ UNCHANGED <<launcherVars, fallbackVars, parserVars, pageVars, instanceVars>>

DragNext ==
    \/ \E variant \in AppVariants : DOMContentLoaded(variant, TRUE, "landing")
    \/ \E e \in PointerInputs : MouseDown(e)
    \/ \E e \in PointerInputs : TouchStart(e)
    \/ \E e \in PointerInputs : MouseMove(e)
    \/ \E e \in PointerInputs : TouchMove(e)
    \/ MouseUp
    \/ TouchEnd

AppNext ==
    \/ \E variant \in AppVariants, overlay \in BOOLEAN, timer \in TimerPages :
          DOMContentLoaded(variant, overlay, timer)
    \/ \E stream \in StreamCards : SelectStream(stream)
    \/ \E cluster \in ClusterCards : SelectCluster(cluster)
    \/ HideTimerFires
    \/ \E kept \in BOOLEAN : NavigateTimerFires(kept)
    \/ DestinationHidesLoading
    \/ PageShowPersisted

\* ------------------------------------------------------------------------
\* One QuestionParser used for several calls of parse
\* ------------------------------------------------------------------------

\* A new QuestionParser: the constructor's array is the first of the heap.
NewParser == [heap |-> << <<>> >>, questions |-> 1, calls |-> <<>>]

\* parse keeping the array the parser already has, in place of a new one.
InstanceParseKeeping(in, text, subject) ==
    LET added == Parse(text, subject)
        kept  == in.heap[in.questions] \o added
    IN  [in EXCEPT !.heap[in.questions] = kept,
                   !.calls = Append(@, [text |-> text, subject |-> subject,
                                        ref |-> in.questions, value |-> kept])]

\* parser.parse(text, subject): this.questions is a new array, the records are
\* pushed onto it and the array itself is returned.  calls keeps, for each
\* call, its arguments, the array returned and what it held at the return.
InstanceParse(in, text, subject) ==
    LET ref  == Len(in.heap) + 1
        list == Parse(text, subject)
    IN  [in EXCEPT !.heap = Append(@, list),
                   !.questions = ref,
                   !.calls = Append(@, [text |-> text, subject |-> subject,
                                        ref |-> ref, value |-> list])]

\* The calls followed on one parser.
MaxParses == 2

ReuseSources ==
    ScenarioSources \cup {<<>>, <<LnQ1>>, <<LnQ1, LnOptA, LnAnswer>>, <<LnQ12, LnExpl>>}

\* parser.parse(text, subject) on the parser of loadAllSubjects or of
\* loadSubjectWithFallback
CallInstanceParse(src, subject) ==
    /\ Len(inst.calls) < MaxParses
    /\ inst' = InstanceParse(inst, TextOf(src), subject)
    /\ UNCHANGED <<launcherVars, fallbackVars, parserVars, pageVars, appVars>>

InstanceNext ==
    \E src \in ReuseSources, subject \in ParserSubjects : CallInstanceParse(src, subject)

\* ------------------------------------------------------------------------
\* Specifications
\* ------------------------------------------------------------------------

vars ==
    <<quizData, quizMetadata, search, cache, duration, frame, budget, past,
      fb, remote, parser, norm, quiz, app, inst>>

\* A blank page, a new QuizLauncher, no call in progress.
Init ==
    /\ quizData = BlankPage.quizData
    /\ quizMetadata = BlankPage.quizMetadata
    /\ search = BlankPage.search
    /\ cache = NoCache
    /\ duration = ConfigDuration
    /\ frame = [p \in Callers |-> IdleFrame]
    /\ budget = MaxCalls
    /\ past = <<>>
    /\ fb = FbIdle
    /\ remote = NoRemote
    /\ parser = ParserIdle
    /\ norm = NormIdle
    /\ quiz = QuizNone
    /\ app = AppClosed
    /\ inst = NewParser

Next == LauncherNext \/ FallbackNext

Spec == Init /\ [][Next]_vars

\* Two callers on one launcher, each free to call loadSubject while the other's
\* call is still awaiting its fetch.
OverlapNext ==
    \E p \in Callers :
        \/ /\ CanCall(p)
           /\ \E subject \in SubjectInputs : CallLoadSubject(p, subject)
        \/ \E r \in Responses : FetchSettles(p, r)
        \/ TextSettles(p)

OverlapSpec == Init /\ [][OverlapNext]_vars

\* One call of QuestionParser.parse.
ParserSpec == Init /\ [][ParserNext]_vars

\* One call of a normalising function.
NormalizerSpec == Init /\ [][NormalizerNext]_vars

\* A quiz booted on a page and the events of its user and of its timer.
QuizSpec == Init /\ [][QuizNext]_vars

\* The navigation of a booted quiz: the methods of QuizState and the handlers
\* of QuizUI that move between questions.
NavigationSpec == Init /\ [][NavigationNext]_vars

\* The countdown of a page from its load on: seconds, resets, pauses, resumes.
TimerSpec == Init /\ [][TimerNext]_vars

\* The timer widget of a landing page and the pointer events on it.
DragSpec == Init /\ [][DragNext]_vars

\* One parser, parse called on it again and again.
InstanceSpec == Init /\ [][InstanceNext]_vars

\* A landing page: its loads, its card clicks, its timers and its returns.
AppSpec == Init /\ [][AppNext]_vars

\* ------------------------------------------------------------------------
\* Properties
\* ------------------------------------------------------------------------

\* A call of initializeFromUrl that has settled.
InitDone(p) == frame[p].op = "initializeFromUrl" /\ frame[p].pc = "done"

\* What a settled call settled with.
Outcome(p) == Val(frame[p].outcome)

\* The page of the call held no usable embedded payload.
RemotePath == ~HasEmbedded(quizData)

FetchErrors == {"Failed to fetch", "HTTP"}

\* C1: question resolution always succeeds - whatever the embedded payload, the
\* URL parameters and the fetch outcomes, a settled initializeFromUrl has
\* returned a question list (a built-in sample set at the last) and has not
\* rejected.
C1_AlwaysReturnsAList ==
    \A p \in Callers : InitDone(p) => Outcome(p).kind = "returned"

\* C2: whenever initializeFromUrl returns, the returned list is not empty, on
\* the ?subject=, ?stream=&cluster= and ?subjects= paths alike, also when a
\* reachable file parses to no question.
C2_ReturnedListNonEmpty ==
    \A p \in Callers :
        (InitDone(p) /\ Outcome(p).kind = "returned") => Len(Outcome(p).value) > 0

\* C3: a fetch failure (network error or non-OK status) is turned into an empty
\* result and never reaches the caller as a rejection: not from
\* loadSubjectWithFallback, not from either loadAllSubjects, and not from
\* initializeFromUrl on the ?subject= path.
C3_FetchFailureNeverRejects ==
    /\ fb.pc = "done" => Val(fb.outcome).kind = "returned"
    /\ \A p \in Callers :
          (InitDone(p) /\ RemotePath /\ IsJust(search.subject))
              => ~(Outcome(p).kind = "rejected" /\ Outcome(p).error \in FetchErrors)

\* A call of loadCluster, direct or from initializeFromUrl, that has settled.
ClusterDone(p) == frame[p].inCluster /\ frame[p].pc = "done"

\* The question list a settled cluster load gave its caller; none when it threw.
ResultQuestions(p) ==
    IF Outcome(p).kind = "rejected" THEN <<>>
    ELSE IF frame[p].op = "loadCluster" THEN Outcome(p).value.questions
    ELSE Outcome(p).value

RECURSIVE TotalLen(_)
TotalLen(lists) == IF lists = <<>> THEN 0 ELSE Len(Head(lists)) + TotalLen(Tail(lists))

\* The records of the subjects that loaded, one list per subject that loaded.
LoadedLists(settled) ==
    LET loaded == SelectSeq(settled, LAMBDA e : e.result.kind = "returned")
    IN  [n \in 1..Len(loaded) |-> loaded[n].result.value]

\* What a location gives once fetched and parsed; nothing when the fetch fails.
ParseOf(r, subject) ==
    IF r.kind = "response" /\ r.ok THEN Parse(r.body, subject) ELSE <<>>

\* The locations a call of the archive/live loaders may consult for a subject.
SourcesOf(op, subject, period) ==
    IF op = "loadAllSubjectsFixed" THEN {remote[subject].live}
    ELSE IF subject \notin DOMAIN SubjectFiles THEN {}
    ELSE IF UsesArchive(period) THEN {remote[subject].archive, remote[subject].live}
    ELSE {remote[subject].live}

C4_ClusterIsolation ==
    \A p \in Callers : ClusterDone(p) =>
        LET f == frame[p]
            result == ResultQuestions(p)
        IN  /\ f.attempted = f.subjects
            /\ Len(f.settled) = Len(f.subjects)
            /\ \A n \in 1..Len(f.settled) :
                  IF f.settled[n].result.kind = "returned"
                  THEN Outcome(p).kind = "returned" =>
                          Range(f.settled[n].result.value) \subseteq Range(result)
                  ELSE \E e \in Range(f.errors) : e.subject = f.subjects[n]
            /\ Len(result) = TotalLen(LoadedLists(f.settled))

C4_AllSubjectsIsolation ==
    (fb.op \in {"loadAllSubjects", "loadAllSubjectsFixed"} /\ fb.pc = "done") =>
        LET result == Val(fb.outcome)
        IN  /\ result.kind = "returned"
            /\ fb.attempted = fb.subjects
            /\ DOMAIN result.value = Range(fb.subjects)
            /\ \A s \in Range(fb.subjects) :
                  LET parses == {ParseOf(r, s) : r \in SourcesOf(fb.op, s, fb.period)}
                  IN  IF parses \subseteq {<<>>}
                      THEN result.value[s] = <<>>
                      ELSE result.value[s] \in parses \ {<<>>}

\* C4: loadCluster and both loadAllSubjects attempt every subject of the list
\* whatever failed before; a failing subject adds no record (and in
\* loadAllSubjects its key holds the empty list), and every record of every
\* subject that loaded is in the result.
C4_PartialFailureIsolation == C4_ClusterIsolation /\ C4_AllSubjectsIsolation

\* A cluster load returned although its first subject had failed.
C4_Witness ==
    \E p \in Callers :
        /\ ClusterDone(p)
        /\ Outcome(p).kind = "returned"
        /\ Len(frame[p].subjects) >= 2
        /\ frame[p].settled[1].result.kind = "rejected"
        /\ frame[p].settled[2].result.kind = "returned"
        /\ Len(ResultQuestions(p)) > 0

\* C5: when window.quizData is a non-empty array, initializeFromUrl returns one
\* record per embedded entry, in the entries' order, and fetches nothing,
\* whatever URL parameters the page was opened with.
C5_EmbeddedShortCircuits ==
    \A p \in Callers :
        (frame[p].op = "initializeFromUrl" /\ HasEmbedded(quizData)) =>
            /\ frame[p].pc = "done"
            /\ Outcome(p).kind = "returned"
            /\ Len(Outcome(p).value) = Len(quizData.items)
            /\ \A n \in 1..Len(quizData.items) :
                  /\ Outcome(p).value[n].id = quizData.items[n].id
                  /\ Outcome(p).value[n].text = quizData.items[n].text
                  /\ Outcome(p).value[n].answer = quizData.items[n].answer
            /\ frame[p].fetched = <<>>
            /\ frame[p].attempted = <<>>

\* The embedded entries were returned on a page opened with ?subject= and
\* ?stream= both set.
C5_Witness ==
    \E p \in Callers :
        /\ InitDone(p)
        /\ HasEmbedded(quizData)
        /\ Len(quizData.items) = 2
        /\ IsJust(search.subject)
        /\ IsJust(search.stream)
        /\ Len(Outcome(p).value) = 2

\* A call of loadSubjectWithFallback for a mapped subject with period >= 1.
ArchiveFirstCall ==
    /\ fb.op = "loadSubjectWithFallback"
    /\ fb.subject \in DOMAIN SubjectFiles
    /\ UsesArchive(fb.period)

FromArchive == ParseOf(remote[fb.subject].archive, fb.subject)
FromLive == ParseOf(remote[fb.subject].live, fb.subject)

\* C6: in loadSubjectWithFallback with period >= 1 the archive is fetched first;
\* if it yields a record its records are returned and the live location is never
\* fetched, however many records that one holds; the live location is fetched
\* only after the archive failed or parsed to nothing, and the result is []
\* only when both failed or were empty.
C6_SourceOrderDecides ==
    ArchiveFirstCall =>
        /\ Len(fb.fetched) >= 1
        /\ fb.fetched[1].tier = "archive"
        /\ fb.fetched[1].url.base = ArchiveBase
        /\ Len(fb.fetched) <= 2
        /\ Len(fb.fetched) = 2 =>
              /\ fb.fetched[2].tier = "live"
              /\ fb.fetched[2].url.base = QuesttBase
              /\ FromArchive = <<>>
        /\ fb.pc = "done" =>
              /\ Val(fb.outcome).kind = "returned"
              /\ FromArchive # <<>> =>
                    /\ Val(fb.outcome).value = FromArchive
                    /\ Len(fb.fetched) = 1
              /\ FromArchive = <<>> =>
                    /\ Val(fb.outcome).value = FromLive
                    /\ Len(fb.fetched) = 2
              /\ Val(fb.outcome).value = <<>> <=> (FromArchive = <<>> /\ FromLive = <<>>)

\* The archive held one question and the live location two: the one was
\* returned and the live location was not fetched.
C6_Witness ==
    /\ ArchiveFirstCall
    /\ fb.pc = "done"
    /\ Len(FromArchive) = 1
    /\ Len(FromLive) = 2
    /\ Val(fb.outcome).value = FromArchive
    /\ Len(fb.fetched) = 1

\* The validation the records are claimed to have passed.
NonBlank(m) == IsJust(m) /\ Trim(Val(m)) # <<>>

StrictValid(q) ==
    /\ NonBlank(q.text)
    /\ \A k \in {"A", "B", "C", "D"} : k \in DOMAIN q.options /\ NonBlank(q.options[k])
    /\ IsJust(q.answer)
    /\ Val(q.answer) \in {<<"A">>, <<"B">>, <<"C">>, <<"D">>}

\* C7: every record initializeFromUrl (embedded or remote path) or
\* loadSubjectWithFallback returns has a non-blank text, the four options A-D
\* present and non-blank, and an answer among "A", "B", "C", "D"; records
\* failing this were dropped before the result was returned.
C7_ReturnedRecordsAreValid ==
    /\ \A p \in Callers :
          (InitDone(p) /\ Outcome(p).kind = "returned") =>
              \A q \in Range(Outcome(p).value) : StrictValid(q)
    /\ (fb.op = "loadSubjectWithFallback" /\ fb.pc = "done") =>
          \A q \in Range(Val(fb.outcome).value) : StrictValid(q)

\* What the launcher holds for a subject once a cluster load is over: the
\* records of a subject that loaded, now or earlier, and nothing otherwise.
HeldFor(subject) == IF CacheHit(cache, subject) THEN cache[subject] ELSE <<>>

RECURSIVE Flatten(_)
Flatten(lists) == IF lists = <<>> THEN <<>> ELSE Head(lists) \o Flatten(Tail(lists))

\* C8: the list loadCluster(subjects) returns is the concatenation, in the
\* order of subjects, of the records of each subject that loaded, each
\* subject's records together and in parsed order, for every mix of cache
\* hits, fetch successes and fetch failures.
C8_SubjectOrderConcatenation ==
    \A p \in Callers :
        (ClusterDone(p) /\ Outcome(p).kind = "returned") =>
            LET f == frame[p]
            IN  /\ ResultQuestions(p) = Flatten(LoadedLists(f.settled))
                /\ Cardinality(Range(f.subjects)) = Len(f.subjects) =>
                      ResultQuestions(p) =
                          Flatten([n \in 1..Len(f.subjects) |-> HeldFor(f.subjects[n])])
                /\ \A n \in 1..Len(f.settled) : f.settled[n].subject = f.subjects[n]

\* A cluster of at least three subjects returned after a cache hit, a failure
\* and a fetch that gave questions, two subjects contributing.
C8_Witness ==
    \E p \in Callers :
        /\ ClusterDone(p)
        /\ Outcome(p).kind = "returned"
        /\ Len(frame[p].subjects) >= 3
        /\ Range(frame[p].subjects) \subseteq DOMAIN GithubSubjects
        /\ Len(frame[p].errors) >= 1
        /\ Len(frame[p].fetched) >= 2
        /\ Len(frame[p].fetched) < Len(frame[p].subjects)
        /\ \E m, n \in 1..Len(frame[p].subjects) :
              /\ m < n
              /\ frame[p].subjects[m] # frame[p].subjects[n]
              /\ HeldFor(frame[p].subjects[m]) # <<>>
              /\ HeldFor(frame[p].subjects[n]) # <<>>

\* The cluster the stream and cluster parameters name, if they name one.
NamedCluster ==
    IF IsJust(search.stream)
    THEN GetCluster(Val(search.stream),
                    ParseInt(IF OrEmpty(search.cluster) = <<>> THEN <<"0">>
                             ELSE Val(search.cluster)))
    ELSE Returned(Nothing)

NamesCluster == NamedCluster.kind = "returned" /\ IsJust(NamedCluster.value)

\* C9: of the URL parameters of initializeFromUrl, stream/cluster (the cluster's
\* fixed subject list) goes before subject (the single subject), and subject
\* before subjects (the comma-separated list).
C9_ClusterBeforeSubjectBeforeList ==
    \A p \in Callers :
        (InitDone(p) /\ RemotePath) =>
            IF NamesCluster
            THEN frame[p].attempted = Val(NamedCluster.value).subjects
            ELSE (~IsJust(search.stream) /\ IsJust(search.subject)) =>
                    frame[p].attempted = <<Val(search.subject)>>

\* No fetch is ever awaited for a subject without a filename.
UnmappedNeverFetched ==
    /\ \A p \in Callers :
          frame[p].pc \in {"await_fetch", "await_text"} =>
              frame[p].subject \in DOMAIN GithubSubjects
    /\ (fb.op \in {"loadSubjectWithFallback", "loadAllSubjects"}
          /\ fb.pc \in {"await_fetch", "await_text"}) =>
              fb.subject \in DOMAIN SubjectFiles

\* The names of the files fetched.
FetchedFiles(p) == {frame[p].fetched[n][2] : n \in 1..Len(frame[p].fetched)}
FbFetchedFiles == {fb.fetched[n].url.file : n \in 1..Len(fb.fetched)}

\* What the live location of a mapped subject holds.
FromSource(s) == ParseOf(remote[s].live, s)

C10_LoadCluster ==
    \A p \in Callers :
        /\ FetchedFiles(p) \subseteq {GithubSubjects[s] : s \in DOMAIN GithubSubjects}
        /\ ClusterDone(p) =>
              LET f == frame[p]
              IN  /\ f.attempted = f.subjects
                  /\ \A n \in 1..Len(f.subjects) :
                        f.subjects[n] \notin DOMAIN GithubSubjects =>
                            /\ f.settled[n].result = Rejected("Subject not found")
                            /\ [subject |-> f.subjects[n], error |-> "Subject not found"]
                                  \in Range(f.errors)
                            /\ \A q \in Range(ResultQuestions(p)) :
                                  q.subject # f.subjects[n]
                  /\ Len(f.fetched) <=
                        Cardinality({n \in 1..Len(f.subjects) :
                                        f.subjects[n] \in DOMAIN GithubSubjects})

C10_Fallback ==
    (fb.op \in {"loadSubjectWithFallback", "loadAllSubjects"}) =>
        /\ FbFetchedFiles \subseteq {SubjectFiles[s] : s \in DOMAIN SubjectFiles}
        /\ (fb.op = "loadSubjectWithFallback" /\ fb.subject \notin DOMAIN SubjectFiles) =>
              /\ fb.pc = "done"
              /\ Val(fb.outcome) = Returned(<<>>)
              /\ fb.fetched = <<>>
        /\ (fb.op = "loadAllSubjects" /\ fb.pc = "done") =>
              /\ fb.attempted = fb.subjects
              /\ \A s \in Range(fb.subjects) :
                    IF s \in DOMAIN SubjectFiles
                    THEN (FromSource(s) # <<>>) => Val(fb.outcome).value[s] # <<>>
                    ELSE Val(fb.outcome).value[s] = <<>>
              /\ Len(fb.fetched) <=
                    2 * Cardinality({n \in 1..Len(fb.subjects) :
                                        fb.subjects[n] \in DOMAIN SubjectFiles})

Timeline(p) ==
    Flatten([n \in 1..Len(past) |-> past[n].settled]) \o frame[p].settled

Loaded(e) == e.result.kind = "returned"

\* The positions before j at which subject s loaded.
LoadedBefore(t, j, s) == {i \in 1..(j - 1) : t[i].subject = s /\ Loaded(t[i])}

\* C11: on one launcher, once loadSubject(s) has loaded s, every later
\* loadSubject(s) that does not overlap it, direct or from loadCluster, fetches
\* nothing and returns the same records; over a sequence of loads a subject is
\* fetched successfully at most once.
C11_CacheAvoidsRefetch ==
    LET t == Timeline("c1")
    IN  /\ \A j \in 1..Len(t) :
              \A i \in LoadedBefore(t, j, t[j].subject) :
                  ~t[j].fetch /\ t[j].result = t[i].result
        /\ \A s \in SubjectInputs \cup DOMAIN GithubSubjects :
              Cardinality({j \in 1..Len(t) :
                              t[j].subject = s /\ t[j].fetch /\ Loaded(t[j])}) <= 1
        /\ frame["c1"].pc \in {"await_fetch", "await_text"} =>
              LoadedBefore(t, Len(t) + 1, frame["c1"].subject) = {}

\* A subject fetched with questions in one call was returned again, the same
\* records and no fetch, by a later call.
C11_Witness ==
    LET t == Timeline("c1")
    IN  /\ Len(past) >= 1
        /\ \E i, j \in 1..Len(t) :
              /\ i < j
              /\ t[i].subject = t[j].subject
              /\ t[i].fetch /\ Loaded(t[i]) /\ t[i].result.value # <<>>
              /\ ~t[j].fetch /\ t[j].result = t[i].result

\* C13: the cache keeps only what loaded: a loadSubject that fails (unknown
\* subject, network error, non-OK status) leaves no entry, so the next
\* loadSubject for the subject fetches again; a subject has an entry only after
\* a fetch of it completed successfully.
C13_CacheOnlySuccess ==
    LET t == Timeline("c1")
        stored == {j \in 1..Len(t) : t[j].fetch /\ Loaded(t[j])}
    IN  /\ DOMAIN cache = {t[j].subject : j \in stored}
        /\ \A j \in stored : cache[t[j].subject] = t[j].result.value
        /\ \A j \in 1..Len(t) :
              (~Loaded(t[j]) /\ LoadedBefore(t, j, t[j].subject) = {}) =>
                  /\ ~CacheHit(cache, t[j].subject)
                        \/ \E k \in (j + 1)..Len(t) :
                              t[k].subject = t[j].subject /\ t[k].fetch /\ Loaded(t[k])
                  /\ \A k \in (j + 1)..Len(t) :
                        (/\ t[k].subject = t[j].subject
                         /\ t[k].subject \in DOMAIN GithubSubjects
                         /\ LoadedBefore(t, k, t[k].subject) = {}) => t[k].fetch

\* A subject whose fetch failed was fetched again by the next call and loaded.
C13_Witness ==
    LET t == Timeline("c1")
    IN  \E i, j \in 1..Len(t) :
            /\ i < j
            /\ t[i].subject = t[j].subject
            /\ t[i].fetch /\ ~Loaded(t[i])
            /\ t[j].fetch /\ Loaded(t[j])
            /\ CacheHit(cache, t[j].subject)

\* A loadSubject call that has issued its fetch and not yet returned.
InFlight(p) ==
    frame[p].op = "loadSubject" /\ frame[p].pc \in {"await_fetch", "await_text"}

\* C12: when two loadSubject requests for one subject overlap on a launcher
\* (the second starts before the first's fetch is over), one fetch is issued
\* for the two and both get its result.
C12_OverlapSharesOneFetch ==
    \A p, q \in Callers :
        (p # q /\ InFlight(p) /\ InFlight(q) /\ frame[p].subject = frame[q].subject) =>
            Len(frame[p].fetched) + Len(frame[q].fetched) = 1

\* The k-th line of the text parse was called with, as it was written down.
NoLine == SrcLine("blank", <<>>, <<>>, <<>>, <<>>)
SrcAt(k) == IF k <= Len(parser.src) THEN parser.src[k] ELSE NoLine

\* The locals of parse before and after its k-th iteration.
Before(k) == IF k = 1 THEN ParseStart ELSE parser.hist[k - 1]
After(k) == parser.hist[k]

HasBanner(l) ==
    \E i \in 1..(Len(Core(l)) - Len(BannerMarker) + 1) :
        SubSeq(Core(l), i, i + Len(BannerMarker) - 1) = BannerMarker

\* Blank and header lines.
Skippable(l) == l.kind \in {"blank", "header"} \/ HasBanner(l)

\* The record a numbered line stands for, nothing added to it yet.
Numbered(l) == l.kind = "question"
RecordOf(l, subject) ==
    [id          |-> DigitsValue(l.head),
     subject     |-> subject,
     text        |-> Just(l.body),
     options     |-> NoOptions,
     answer      |-> Nothing,
     explanation |-> <<>>,
     exception   |-> <<>>]

\* The records the given numbered lines start: one each, in their order, id
\* and text as written.
OneRecordPerLine(numbered) ==
    /\ Len(parser.result) = Len(numbered)
    /\ \A n \in 1..Len(numbered) :
          /\ parser.result[n].id = DigitsValue(numbered[n].head)
          /\ parser.result[n].text = Just(numbered[n].body)

\* C14 as stated: parse emits one record per line <digits>. <rest>, in document
\* order, id and text as written, for every numbered line, one whose text
\* holds the banner marker included.
C14_OneRecordPerNumberedLine ==
    parser.pc = "done" => OneRecordPerLine(SelectSeq(parser.src, Numbered))

\* A numbered line that is not skipped as a header line.
StartsRecord(l) == Numbered(l) /\ ~HasBanner(l)

\* C14 as amended: parse emits one record per line <digits>. <rest> that does
\* not contain the banner marker, in document order, id and text as written;
\* the record under construction is pushed when the next such line is read,
\* the last one at the end of the input, and nowhere else.
C14_OneRecordPerUnskippedNumberedLine ==
    /\ parser.pc = "done" =>
          /\ OneRecordPerLine(SelectSeq(parser.src, StartsRecord))
          /\ parser.result =
                IF IsJust(parser.st.cur)
                THEN Append(parser.st.questions, Val(parser.st.cur))
                ELSE parser.st.questions
    /\ \A k \in 1..Len(parser.hist) :
          IF StartsRecord(SrcAt(k))
          THEN /\ After(k).cur = Just(RecordOf(SrcAt(k), parser.subject))
               /\ After(k).questions =
                     IF IsJust(Before(k).cur)
                     THEN Append(Before(k).questions, Val(Before(k).cur))
                     ELSE Before(k).questions
          ELSE After(k).questions = Before(k).questions

\* Two records came out of a text whose second numbered line, number 12,
\* follows an Explanation: line.
C14_Witness ==
    /\ parser.pc = "done"
    /\ Len(parser.src) = 3
    /\ parser.src[2].kind = "explanation"
    /\ parser.src[3] = LnQ12
    /\ Len(parser.result) = 2
    /\ parser.result[2].id = 12
    /\ parser.result[1].explanation # <<>>

\* C15: a well-formed text of one numbered question, its options A-D, one
\* Answer: line and one one-line Explanation: gives exactly one record whose
\* id, text, options, answer and explanation are the values written, trimmed,
\* whose subject is the label passed in and whose exception is empty.
C15_WellFormedRoundTrip ==
    (parser.pc = "done" /\ parser.src \in WellFormedSources) =>
        /\ Len(parser.result) = 1
        /\ LET q == parser.result[1]
               src == parser.src
           IN  /\ q.id = DigitsValue(src[1].head)
               /\ q.text = Just(src[1].body)
               /\ DOMAIN q.options = {"A", "B", "C", "D"}
               /\ \A n \in 2..5 : q.options[src[n].head[1]] = Just(src[n].body)
               /\ q.answer = Just(src[6].body)
               /\ q.explanation = src[7].body
               /\ q.subject = parser.subject
               /\ q.exception = <<>>

\* An indented text with CRLF line ends, a two-digit number and values with
\* inner spaces was parsed to its one record.
C15_Witness ==
    /\ parser.pc = "done"
    /\ parser.src \in WellFormedSources
    /\ parser.src[1].lead # <<>>
    /\ parser.src[1].head = <<"0", "7">>
    /\ Len(parser.src[7].body) > 1
    /\ parser.subject = "Math"
    /\ Len(parser.result) = 1
    /\ parser.result[1].id = 7

\* A record is open when the k-th line is read.
Opened(k) == \E j \in 1..(k - 1) : StartsRecord(SrcAt(j))

\* A line that is neither skipped nor a tag.
PlainAt(k) == SrcAt(k).kind = "plain" /\ ~Skippable(SrcAt(k))

\* A tag line: a numbered, option, Answer:, Explanation: or Exception: line.
TagAt(k) == ~Skippable(SrcAt(k)) /\ SrcAt(k).kind # "plain"

\* The last tag line before the k-th line, 0 when there is none.
LastTag(k) ==
    LET tags == {j \in 1..(k - 1) : TagAt(j)}
    IN  IF tags = {} THEN 0 ELSE SetMax(tags)

\* The k-th line follows, plain lines apart, a tag of the given kind that was
\* read on an open record.
Continues(k, kind) ==
    /\ LastTag(k) # 0
    /\ SrcAt(LastTag(k)).kind = kind
    /\ Opened(LastTag(k))

\* The locals with the given characters appended, after a space, to a field of
\* the record under construction.
Appended(st, field, chars) ==
    [st EXCEPT !.cur =
        Just(IF field = "explanation"
             THEN [Val(st.cur) EXCEPT !.explanation = @ \o <<" ">> \o chars]
             ELSE [Val(st.cur) EXCEPT !.exception = @ \o <<" ">> \o chars])]

\* C16: after an Explanation: (Exception:) line on an open record, every plain
\* line up to the next tag line is appended to explanation (exception), after
\* one space each and in document order; the tag's own remainder comes first.
C16_ContinuationLines ==
    \A k \in 1..Len(parser.hist) :
        /\ (TagAt(k) /\ Opened(k) /\ SrcAt(k).kind = "explanation") =>
              Val(After(k).cur).explanation = SrcAt(k).body
        /\ (TagAt(k) /\ Opened(k) /\ SrcAt(k).kind = "exception") =>
              Val(After(k).cur).exception = SrcAt(k).body
        /\ (PlainAt(k) /\ Continues(k, "explanation")) =>
              After(k) = Appended(Before(k), "explanation", SrcAt(k).body)
        /\ (PlainAt(k) /\ Continues(k, "exception")) =>
              After(k) = Appended(Before(k), "exception", SrcAt(k).body)

\* "Explanation: e" followed by the plain lines "p" and "1.Q" gave "e p 1.Q".
C16_Witness ==
    /\ parser.pc = "done"
    /\ parser.src = <<LnQ1, LnExpl, LnPlain, LnNearQuestion>>
    /\ Len(parser.result) = 1
    /\ parser.result[1].explanation = <<"e", " ", "p", " ", "1", ".", "Q">>

\* C17: at every step of parse at most one collection flag is true and only
\* while a record is open; after a numbered, option or Answer: line both are
\* false, so a plain line after such a line changes neither field; after
\* Explanation: only explanation grows, after Exception: only exception.
C17_FlagsExclusive ==
    \A k \in 1..Len(parser.hist) :
        LET b == Before(k)
            a == After(k)
            l == SrcAt(k)
        IN  /\ ~(a.collectingExplanation /\ a.collectingException)
            /\ (a.collectingExplanation \/ a.collectingException) => IsJust(a.cur)
            /\ (TagAt(k) /\ l.kind \in {"question", "option", "answer"}) =>
                  ~a.collectingExplanation /\ ~a.collectingException
            /\ (TagAt(k) /\ Opened(k) /\ l.kind = "explanation") =>
                  a.collectingExplanation /\ ~a.collectingException
            /\ (TagAt(k) /\ Opened(k) /\ l.kind = "exception") =>
                  a.collectingException /\ ~a.collectingExplanation
            /\ (PlainAt(k) /\ LastTag(k) # 0
                  /\ SrcAt(LastTag(k)).kind \in {"question", "option", "answer"}) => a = b
            /\ (PlainAt(k) /\ b.collectingExplanation) =>
                  /\ Val(a.cur).exception = Val(b.cur).exception
                  /\ Len(Val(a.cur).explanation) > Len(Val(b.cur).explanation)
            /\ (PlainAt(k) /\ b.collectingException) =>
                  /\ Val(a.cur).explanation = Val(b.cur).explanation
                  /\ Len(Val(a.cur).exception) > Len(Val(b.cur).exception)

\* An option line ended the collection its Explanation: line had started: the
\* plain line after it was appended nowhere.
C17_Witness ==
    /\ parser.pc = "done"
    /\ parser.src = <<LnQ1, LnExpl, LnOptA, LnPlain>>
    /\ parser.hist[2].collectingExplanation
    /\ ~parser.hist[3].collectingExplanation
    /\ parser.result[1].explanation = <<"e">>
    /\ parser.result[1].exception = <<>>

\* C18: a blank line and a header line (starting with "JAMB " or containing
\* "EXCEPTIONAL QUESTIONS") change nothing: record under construction, flags
\* and output list are after the line what they were before it, so a
\* collection goes on across such a line.
C18_SkippedLinesChangeNothing ==
    \A k \in 1..Len(parser.hist) : Skippable(SrcAt(k)) => After(k) = Before(k)

\* An explanation went on across a blank line.
C18_Witness ==
    /\ parser.pc = "done"
    /\ parser.src = <<LnQ1, LnExpl, LnBlank, LnPlain>>
    /\ parser.hist[3] = parser.hist[2]
    /\ parser.hist[3].collectingExplanation
    /\ parser.result[1].explanation = <<"e", " ", "p">>

\* The lines from the first numbered line on.
RECURSIVE FromFirstRecord(_)
FromFirstRecord(src) ==
    IF src = <<>> \/ StartsRecord(Head(src)) THEN src ELSE FromFirstRecord(Tail(src))

\* C19: option, Answer:, Explanation: and Exception: lines before any numbered
\* line are dropped: they create no record and no record of the output
\* carries their content.
C19_LinesBeforeFirstQuestionDropped ==
    /\ \A k \in 1..Len(parser.hist) :
          (~Opened(k) /\ ~StartsRecord(SrcAt(k))) =>
              /\ After(k).cur = Nothing
              /\ After(k).questions = <<>>
              /\ ~After(k).collectingExplanation
              /\ ~After(k).collectingException
    /\ parser.pc = "done" =>
          /\ parser.result = Parse(TextOf(FromFirstRecord(parser.src)), parser.subject)
          /\ (\A k \in 1..Len(parser.src) : ~StartsRecord(parser.src[k])) =>
                parser.result = <<>>

\* Four tag and plain lines came before the only numbered line: its record
\* has nothing of them.
C19_Witness ==
    /\ parser.pc = "done"
    /\ parser.src = <<LnOptA, LnAnswer, LnExpl, LnPlain, LnQ12>>
    /\ parser.result = <<RecordOf(LnQ12, parser.subject)>>

\* C20: parse ends after one pass over the lines of its text, raises nothing
\* and returns a list, empty at times; a line it cannot classify is skipped and
\* leaves the records built from the other lines as they were.
C20_OnePassNoError ==
    /\ parser.pc = "loop" =>
          /\ parser.i \in 1..(Len(parser.lines) + 1)
          /\ Len(parser.hist) = parser.i - 1
          /\ parser.i <= Len(parser.lines) =>
                DOMAIN ParseLine(parser.st, parser.lines[parser.i], parser.subject)
                    = DOMAIN ParseStart
    /\ parser.pc = "done" =>
          /\ parser.i = Len(parser.lines) + 1
          /\ Len(parser.hist) = Len(parser.lines)
          /\ Len(parser.result) <= Len(parser.lines)
          /\ \A n \in 1..Len(parser.result) :
                DOMAIN parser.result[n] = DOMAIN RecordOf(LnQ1, parser.subject)
          /\ parser.result = Parse(TextOf(parser.src), parser.subject)
    /\ \A k \in 1..Len(parser.hist) :
          (/\ PlainAt(k)
           /\ ~Before(k).collectingExplanation
           /\ ~Before(k).collectingException) => After(k) = Before(k)

\* Two near misses between a numbered line and its Answer: line left the record
\* as the two lines alone make it.
C20_Witness ==
    /\ parser.pc = "done"
    /\ parser.src = <<LnQ1, LnNearQuestion, LnNearOption, LnAnswer>>
    /\ parser.result =
          <<[RecordOf(LnQ1, parser.subject) EXCEPT !.answer = Just(<<"B">>)]>>

\* C21: no two records of the list one parse call returns have the same id,
\* whatever the text, a text repeating a question number included.
C21_IdsUniqueInOutput ==
    parser.pc = "done" =>
        \A m, n \in 1..Len(parser.result) :
            m # n => parser.result[m].id # parser.result[n].id

\* The raw record behind the n-th record of a normalising call's result.
RawOf(n) == norm.raw[n]

\* C22: for every raw record and every key K of A-D, normalizeQuestions sets
\* options.K to the flat field optionK whenever that field is present (also
\* when the nested options[K] is present too), to the nested value when only
\* that one is present, and to the empty string when both are absent.
C22_FlatWinsOverNested ==
    (norm.pc = "done" /\ norm.op = "normalizeQuestions") =>
        \A n \in 1..Len(norm.result) : \A key \in OptionLetters :
            norm.result[n].options[key] =
                IF IsJust(Flat(RawOf(n), key)) THEN Val(Flat(RawOf(n), key))
                ELSE IF IsJust(Nested(RawOf(n), key)) THEN Val(Nested(RawOf(n), key))
                ELSE <<>>

\* C23: in every normalising path the subject of a normalised record is the
\* raw record's own subject if it has one, otherwise the caller's subject
\* hint, otherwise the page's subject metadata, otherwise "General".
C23_SubjectResolutionOrder ==
    norm.pc = "done" =>
        \A n \in 1..Len(norm.result) :
            norm.result[n].subject =
                IF TruthyName(RawOf(n).subject) THEN Val(RawOf(n).subject)
                ELSE IF TruthyName(norm.hint) THEN Val(norm.hint)
                ELSE IF IsJust(norm.metadata) /\ TruthyName(Val(norm.metadata).subject)
                     THEN Val(Val(norm.metadata).subject)
                ELSE "General"

\* validate reported nothing about the n-th record.
Accepted(n) == \A e \in 1..Len(parser.errors) : parser.errors[e].index # n

\* What the loose validator is said to ask of a record.
LooseValid(q) ==
    /\ IsJust(q.text) /\ Val(q.text) # <<>>
    /\ Cardinality(DOMAIN q.options) >= 2
    /\ \A key \in DOMAIN q.options : NonBlank(q.options[key])
    /\ IsJust(q.answer)
    /\ \E key \in DOMAIN q.options : Val(q.answer) = <<key>>

\* C24: validate, in question-parser.js as in part_000, reports no error for a
\* parsed record exactly when its text is non-empty, it has two options or
\* more, none of its options is blank and its answer is one of its option keys.
C24_LooseValidator ==
    parser.pc = "validated" =>
        \A n \in 1..Len(parser.result) : Accepted(n) <=> LooseValid(parser.result[n])

\* A day number below 100 written with two digits.
TwoDigits(n) == <<DigitChar(n \div 10), DigitChar(n % 10)>>

\* The day range the period p is said to stand for.
DayRange(p) == TwoDigits(2 * p - 1) \o <<"-">> \o TwoDigits(2 * p)

\* The archive fetches of the call in progress.
ArchiveFetches == {n \in 1..Len(fb.fetched) : fb.fetched[n].tier = "archive"}

\* The subjects the call in progress has asked loadSubjectWithFallback for.
Asked == {fb.attempted[n] : n \in 1..Len(fb.attempted)}

\* C25: for a period p >= 1 the day range is (2p-1)-(2p) with both numbers
\* zero-padded to two digits, "01-02" for period 1 and "05-06" for period 3,
\* and the archive location fetched for a subject is the archive base, then
\* /day-<range>/, then the subject's mapped filename.
C25_PeriodMath ==
    /\ \A n \in ArchiveFetches :
          /\ IsJust(fb.period)
          /\ fb.fetched[n].url.base = ArchiveBase
          /\ fb.fetched[n].url.dir
                = Just(<<"d", "a", "y", "-">> \o DayRange(Val(fb.period)))
          /\ \E subject \in Asked \cap DOMAIN SubjectFiles :
                fb.fetched[n].url.file = SubjectFiles[subject]
    /\ ArchiveFirstCall =>
          /\ 1 \in ArchiveFetches
          /\ fb.fetched[1].url.file = SubjectFiles[fb.subject]
          /\ fb.period = Just(1) =>
                fb.fetched[1].url.dir = Just(<<"d", "a", "y", "-", "0", "1", "-", "0", "2">>)
          /\ fb.period = Just(3) =>
                fb.fetched[1].url.dir = Just(<<"d", "a", "y", "-", "0", "5", "-", "0", "6">>)
          /\ fb.period = Just(5) =>
                fb.fetched[1].url.dir = Just(<<"d", "a", "y", "-", "0", "9", "-", "1", "0">>)

\* Period 5 for Physics: the days 09-10, one digit padded and two digits kept.
C25_Witness ==
    /\ fb.op = "loadSubjectWithFallback"
    /\ fb.pc = "done"
    /\ fb.subject = "Physics"
    /\ fb.period = Just(5)
    /\ fb.fetched[1].url =
          [base |-> ArchiveBase,
           dir  |-> Just(<<"d", "a", "y", "-", "0", "9", "-", "1", "0">>),
           file |-> SubjectFiles["Physics"]]

\* C26: an archive location is fetched only for a period >= 1: with the period
\* omitted, zero or negative the live location is the only one fetched; the
\* only archive period fetched is the one given, so a location of the period
\* before it is fetched for no period, and none of period 0 for period 1.
C26_ArchiveGatedByPeriod ==
    /\ (~IsJust(fb.period) \/ Val(fb.period) < 1) =>
          \A n \in 1..Len(fb.fetched) :
              /\ fb.fetched[n].tier # "archive"
              /\ fb.fetched[n].url.base # ArchiveBase
              /\ fb.fetched[n].url.dir = Nothing
    /\ \A n \in 1..Len(fb.fetched) :
          IsJust(fb.fetched[n].url.dir) =>
              /\ IsJust(fb.period)
              /\ Val(fb.period) >= 1
              /\ Val(fb.fetched[n].url.dir)
                    = <<"d", "a", "y", "-">> \o DayRange(Val(fb.period))
              /\ Val(fb.fetched[n].url.dir)
                    # <<"d", "a", "y", "-">> \o PeriodToDayRange(Val(fb.period) - 1)

\* Period 1 and an archive without the file: the live location came next and
\* nothing of a period 0 was asked for.
C26_Witness ==
    /\ fb.op = "loadSubjectWithFallback"
    /\ fb.pc = "done"
    /\ fb.period = Just(1)
    /\ Len(fb.fetched) = 2
    /\ fb.fetched[1].url.dir = Just(<<"d", "a", "y", "-", "0", "1", "-", "0", "2">>)
    /\ fb.fetched[2].url.dir = Nothing

\* The question shown, by its place in the list.
CurrentPlace == quiz.currentQuestionIndex + 1

\* C27: after every render the explanation panel is shown when an answer is
\* stored for the current question and hidden when none is: selecting an
\* option reveals it, clearing the answer or moving to an unanswered question
\* hides it.
C27_ExplanationFollowsAnswer ==
    quiz.booted => (~quiz.explanationHidden <=> CurrentPlace \in quiz.answeredByUser)

\* What the question at place n adds to getScore.
ScoreOf(q, n) ==
    IF /\ q.questions[n].id \in DOMAIN q.userAnswers
       /\ Just(<<q.userAnswers[q.questions[n].id]>>) = q.questions[n].answer
    THEN 1 ELSE 0

\* C29: recording or clearing an answer changes the stored answer of the
\* current question only: for every other question of the list getAnswer, the
\* palette's answered mark and its part in getScore stay what they were, and
\* getAnsweredCount moves by one at most.
C29_AnswerIsolation ==
    [][(quiz.booted /\ quiz'.userAnswers # quiz.userAnswers) =>
          /\ \A n \in 1..Len(quiz.questions) :
                n # CurrentPlace =>
                    /\ GetAnswer(quiz', quiz.questions[n].id)
                          = GetAnswer(quiz, quiz.questions[n].id)
                    /\ ("answered" \in quiz'.palette[n]) = ("answered" \in quiz.palette[n])
                    /\ ScoreOf(quiz', n) = ScoreOf(quiz, n)
          /\ GetAnsweredCount(quiz') - GetAnsweredCount(quiz) \in {-1, 0, 1}]_vars

\* C30: once isSubmitted is set, by handleSubmit or by handleTimeUp, no click,
\* key, clear or navigation changes the recorded answers or the score.
C30_SubmittedAnswersFrozen ==
    [][quiz.isSubmitted =>
          /\ quiz'.userAnswers = quiz.userAnswers
          /\ GetScore(quiz') = GetScore(quiz)]_vars

\* C28: after showLoading, whenever the page is shown again, by a fresh init or
\* by a restore from the back/forward cache, the overlay becomes inactive and
\* the grantappLoading flag is removed.  The page can only clear them by a
\* callback that is still pending, so a shown page with no pending timer must
\* already have the overlay inactive and the flag removed.
C28_OverlayClearsOnReturn ==
    (app.page = "shown" /\ app.timers = {})
        => (~app.overlayActive /\ ~app.grantappLoading)

\* The index is one of the list's.
IndexInRange(q) ==
    q.currentQuestionIndex >= 0 /\ q.currentQuestionIndex < Len(q.questions)

\* C31: in a quiz with at least one question, every step of goToQuestion,
\* nextQuestion, prevQuestion, handlePrevious and handleNext leaves
\* 0 <= currentQuestionIndex < questions.length; a call that would leave the
\* range returns false and does not move, a call inside it returns true and
\* moves there, and handleNext on the last question opens the submit modal
\* without moving.
C31_NavigationInRange ==
    [][quiz.booted =>
        LET at   == quiz.currentQuestionIndex
            last == Len(quiz.questions) - 1
        IN  /\ Len(quiz.questions) >= 1
            /\ IndexInRange(quiz')
            /\ \A index \in IndexInputs :
                  CallGoToQuestion(index) =>
                      IF index >= 0 /\ index <= last
                      THEN quiz'.returned = Just(TRUE) /\ quiz'.currentQuestionIndex = index
                      ELSE quiz'.returned = Just(FALSE) /\ quiz'.currentQuestionIndex = at
            /\ CallNextQuestion =>
                  IF at < last
                  THEN quiz'.returned = Just(TRUE) /\ quiz'.currentQuestionIndex = at + 1
                  ELSE quiz'.returned = Just(FALSE) /\ quiz'.currentQuestionIndex = at
            /\ CallPrevQuestion =>
                  IF at > 0
                  THEN quiz'.returned = Just(TRUE) /\ quiz'.currentQuestionIndex = at - 1
                  ELSE quiz'.returned = Just(FALSE) /\ quiz'.currentQuestionIndex = at
            /\ (ClickNext \/ KeyDown("ArrowRight")) =>
                  IF at = last
                  THEN quiz'.currentQuestionIndex = at /\ ~quiz'.submitModalHidden
                  ELSE quiz'.currentQuestionIndex = at + 1
            /\ (ClickPrev \/ KeyDown("ArrowLeft")) =>
                  quiz'.currentQuestionIndex = IF at > 0 THEN at - 1 ELSE at
    ]_vars

\* A call was refused on the last of several questions, and handleNext has
\* opened the submit modal there.
C31_Witness ==
    /\ quiz.booted
    /\ Len(quiz.questions) = 3
    /\ quiz.currentQuestionIndex = 2
    /\ quiz.returned = Just(FALSE)
    /\ ~quiz.submitModalHidden

\* C32: with the one timer QuizUI starts and a positive whole number of
\* seconds, each tick takes exactly 1 from timeRemaining, timeRemaining stays
\* between 0 and duration, handleTimeUp is called exactly once, on the tick
\* that brings timeRemaining to 0, and once the quiz is submitted or timed out
\* no step changes timeRemaining or calls handleTimeUp.
C32_QuizCountdown ==
    [][quiz.booted =>
        /\ quiz.duration > 0
        /\ quiz'.timeRemaining >= 0 /\ quiz'.timeRemaining <= quiz'.duration
        /\ TimerFires => quiz'.timeRemaining = quiz.timeRemaining - 1
        /\ quiz'.timeRemaining # quiz.timeRemaining => TimerFires
        /\ quiz'.timeUps =
              quiz.timeUps + (IF quiz.timeRemaining = 1 /\ quiz'.timeRemaining = 0 THEN 1 ELSE 0)
        /\ quiz'.timeUps = (IF quiz'.timeRemaining = 0 THEN 1 ELSE 0)
        /\ quiz.isSubmitted =>
              quiz'.timeRemaining = quiz.timeRemaining /\ quiz'.timeUps = quiz.timeUps
    ]_vars

\* The countdown has run out: handleTimeUp was called and the timer is stopped.
C32_Witness ==
    /\ quiz.booted
    /\ quiz.timeRemaining = 0
    /\ quiz.timeUps = 1
    /\ ~quiz.timerInterval
    /\ quiz.isSubmitted

\* C33: on one parser used for several calls, the list of every call holds
\* what parse gives for that call's text and subject alone, whatever was
\* parsed before; no two calls return the same array, and the list a call
\* returned still holds, after the later calls, what it held at its return.
C33_ParseHistoryIndependent ==
    \A n \in 1..Len(inst.calls) :
        LET call == inst.calls[n]
        IN  /\ call.value = ParseFlush(ParseLoop(ParseStart, Split(call.text, "\n"), 1, call.subject))
            /\ inst.heap[call.ref] = call.value
            /\ \A m \in 1..(n - 1) :
                  /\ inst.calls[m].ref # call.ref
                  /\ (/\ inst.calls[m].text = call.text
                      /\ inst.calls[m].subject = call.subject)
                         => inst.calls[m].value = call.value

\* Two calls on one parser, the first with records and the second with
\* different ones.
C33_Witness ==
    /\ Len(inst.calls) = 2
    /\ inst.calls[1].value # <<>>
    /\ inst.calls[2].value # <<>>
    /\ inst.calls[1].value # inst.calls[2].value

\* The record under construction with one field given a new value.
WithField(st, field, value) ==
    LET q == Val(st.cur)
    IN  CASE field = "answer"      -> [q EXCEPT !.answer = Just(value)]
          [] field = "explanation" -> [q EXCEPT !.explanation = value]
          [] field = "exception"   -> [q EXCEPT !.exception = value]

\* C34: a plain line read while neither flag is set changes nothing: record
\* under construction, flags and output list stay as they were.  An option,
\* Answer:, Explanation: or Exception: line read on an open record puts its own
\* content in its field whatever the field held, continuation lines included,
\* and touches no other field and not the output list: of several lines for
\* one field of a record the last one wins.
C34_PlainLinesAndRepeatedTags ==
    \A k \in 1..Len(parser.hist) :
        LET b == Before(k)
            a == After(k)
            l == SrcAt(k)
        IN  /\ (PlainAt(k) /\ ~b.collectingExplanation /\ ~b.collectingException) => a = b
            /\ (TagAt(k) /\ Opened(k) /\ l.kind # "question") =>
                  /\ a.questions = b.questions
                  /\ IsJust(b.cur)
                  /\ IF l.kind = "option"
                     THEN /\ Val(a.cur).options[l.head[1]] = Just(l.body)
                          /\ \A key \in DOMAIN Val(b.cur).options \ {l.head[1]} :
                                Val(a.cur).options[key] = Val(b.cur).options[key]
                          /\ [Val(a.cur) EXCEPT !.options = NoOptions]
                                = [Val(b.cur) EXCEPT !.options = NoOptions]
                     ELSE Val(a.cur) = WithField(b, l.kind, l.body)

\* Option A came twice and Explanation: twice, the first with a continuation
\* line: the record has the later contents only.
C34_Witness ==
    /\ parser.pc = "done"
    /\ parser.src = <<LnQ1, LnOptA, LnExpl, LnPlain, LnExc, LnExplF, LnExcY, LnOptAz>>
    /\ parser.hist[4].cur # parser.hist[3].cur
    /\ Len(parser.result) = 1
    /\ parser.result[1].options["A"] = Just(<<"z">>)
    /\ parser.result[1].explanation = <<"f">>
    /\ parser.result[1].exception = <<"y">>

C36_PauseCostsNoTime ==
    [][/\ (app.timeLeft > 0 /\ ~IsJust(app.timerInterval) /\ CallResumeTimer)
             => app'.timeLeft = app.timeLeft
       /\ (~IsJust(app.timerInterval) /\ app.page = "shown" /\ app.timer # "none"
             /\ app'.page = "shown" /\ ~CallResumeTimer /\ ~(\E m \in ResetMinutes : CallResetTimer(m)))
             => app'.timeLeft = app.timeLeft
    ]_vars

\* Each time the countdown came to zero on a quiz page, counted by expiries.
\* C37: on a quiz page submitTest is called exactly once for each time the
\* countdown comes to zero, whatever seconds, pauses, resumes and resets
\* came before: never more calls than expiries, as many once no interval is
\* live any more; and timeLeft is never negative.
C37_AutoSubmitOncePerExpiry ==
    (app.page = "shown" /\ app.timer = "quiz") =>
        /\ app.timeLeft >= 0
        /\ app.submits <= app.expiries
        /\ (app.live = {} /\ app.timeLeft = 0) => app.submits = app.expiries

\* C38: once a drag of the timer widget is over (mousedown or touchstart, then
\* stopDrag), none of the move and end listeners added to the document is
\* left, however many drags there were; and a pointer move while isDragging is
\* false changes neither timerPosition nor the saved position.
C38_DragListenersRemoved ==
    [][/\ ~app'.isDragging => app'.listeners = {}
       /\ (~app.isDragging /\ \E e \in PointerInputs : MouseMove(e) \/ TouchMove(e)) =>
             /\ app'.timerPosition = app.timerPosition
             /\ app'.savedPosition = app.savedPosition
    ]_vars

====
